---- MODULE Spec2Model ----
(***************************************************************************)
(* Model of the Terraform module analyzer                                  *)
(* (src/reviewers/terraform_module_analyzer.py) and of the tool layer that *)
(* invokes it.  Text is modelled at the level of characters (a Python str  *)
(* is a sequence of one-character strings); the block tree returned by     *)
(* hcl2.load is a tagged value (str, num, bool, null, list, map).          *)
(***************************************************************************)
EXTENDS Integers, Sequences, FiniteSets, TLC

(***************************************************************************)
(* Python str operations                                                   *)
(***************************************************************************)

\* The characters of str values (newline and printable ASCII), in code-point
\* order: Alphabet[i] is chr(i + 30) for i >= 2 ("bs" and "bq" stand for the
\* backslash and the backquote, which no input contains).
Alphabet ==
  << "\n", " ", "!", "\"", "#", "$", "%", "&", "'", "(", ")", "*", "+", ",",
     "-", ".", "/", "0", "1", "2", "3", "4", "5", "6", "7", "8", "9", ":",
     ";", "<", "=", ">", "?", "@", "A", "B", "C", "D", "E", "F", "G", "H",
     "I", "J", "K", "L", "M", "N", "O", "P", "Q", "R", "S", "T", "U", "V",
     "W", "X", "Y", "Z", "[", "bs", "]", "^", "_", "bq", "a", "b", "c", "d",
     "e", "f", "g", "h", "i", "j", "k", "l", "m", "n", "o", "p", "q", "r",
     "s", "t", "u", "v", "w", "x", "y", "z", "{", "|", "}", "~" >>

\* ord(c), up to the offset of the alphabet
Ord(c) == CHOOSE i \in 1..Len(Alphabet) : Alphabet[i] = c

DigitChars == {Alphabet[i] : i \in 18..27}

UpperChars == {Alphabet[i] : i \in 35..60}

LowerChars == {Alphabet[i] : i \in 67..92}

\* \w of the re module
WordChars == DigitChars \cup UpperChars \cup LowerChars \cup {"_"}

\* \s of the re module
SpaceChars == {" ", "\n"}

\* str.lower() on one character
LowerChar(c) == IF c \in UpperChars THEN Alphabet[Ord(c) + 32] ELSE c

Lower(s) == [i \in 1..Len(s) |-> LowerChar(s[i])]

\* s[i:] (1-based i)
From(s, i) == SubSeq(s, i, Len(s))

\* s.startswith(p) at offset i (1-based): s[i:i+len(p)] == p
MatchAt(s, i, p) ==
  /\ i + Len(p) - 1 <= Len(s)
  /\ \A j \in 1..Len(p) : s[i + j - 1] = p[j]

StartsWith(s, p) == MatchAt(s, 1, p)

EndsWith(s, p) == Len(p) <= Len(s) /\ MatchAt(s, Len(s) - Len(p) + 1, p)

\* p in s
Contains(s, p) == \E i \in 1..(Len(s) + 1) : MatchAt(s, i, p)

\* s.rstrip(chars): drop trailing characters that belong to the set chars
RECURSIVE RStrip(_, _)
RStrip(s, chars) ==
  IF s # <<>> /\ s[Len(s)] \in chars THEN RStrip(SubSeq(s, 1, Len(s) - 1), chars)
  ELSE s

\* s.lstrip(chars): drop leading characters that belong to the set chars
RECURSIVE LStrip(_, _)
LStrip(s, chars) ==
  IF s # <<>> /\ s[1] \in chars THEN LStrip(Tail(s), chars) ELSE s

\* s.replace(old, ""): remove the non-overlapping occurrences, left to right
RECURSIVE Remove(_, _)
Remove(s, old) ==
  IF s = <<>> THEN <<>>
  ELSE IF MatchAt(s, 1, old) THEN Remove(From(s, Len(old) + 1), old)
  ELSE <<s[1]>> \o Remove(Tail(s), old)

\* position of the last "/" of s, 0 when there is none
LastSlash(s) ==
  IF \E i \in 1..Len(s) : s[i] = "/"
  THEN CHOOSE i \in 1..Len(s) : s[i] = "/" /\ \A j \in (i + 1)..Len(s) : s[j] # "/"
  ELSE 0

\* "/".join(filename.split("/")[:-1]) if "/" in filename else ""
DirPrefix(filename) ==
  IF LastSlash(filename) = 0 THEN <<>> ELSE SubSeq(filename, 1, LastSlash(filename) - 1)

\* a < b for Python str (lexicographic by code point)
RECURSIVE StrLess(_, _)
StrLess(a, b) ==
  IF b = <<>> THEN FALSE
  ELSE IF a = <<>> THEN TRUE
  ELSE IF a[1] = b[1] THEN StrLess(Tail(a), Tail(b))
  ELSE Ord(a[1]) < Ord(b[1])

\* sorted(S) for a set S of str
RECURSIVE Sorted(_)
Sorted(S) ==
  IF S = {} THEN <<>>
  ELSE LET m == CHOOSE x \in S : \A y \in S \ {x} : StrLess(x, y)
       IN <<m>> \o Sorted(S \ {m})

\* min(S) for a non-empty set of integers
Min(S) == CHOOSE x \in S : \A y \in S : x <= y

\* length of the longest run of characters of the set cls starting at s[i]
RunLen(s, i, cls) ==
  LET stop == {j \in i..Len(s) : s[j] \notin cls}
  IN IF i > Len(s) THEN 0
     ELSE IF stop = {} THEN Len(s) - i + 1
     ELSE Min(stop) - i

(***************************************************************************)
(* Values of the block tree returned by hcl2.load                          *)
(***************************************************************************)

\* a Python str
VStr(s) == [t |-> "str", s |-> s, items |-> <<>>]

\* a Python int, given by its decimal digits
VNum(digits) == [t |-> "num", s |-> digits, items |-> <<>>]

VTrue == [t |-> "bool", s |-> <<"T", "r", "u", "e">>, items |-> <<>>]

VFalse == [t |-> "bool", s |-> <<"F", "a", "l", "s", "e">>, items |-> <<>>]

VNone == [t |-> "null", s |-> <<"N", "o", "n", "e">>, items |-> <<>>]

\* a Python list of values
VList(items) == [t |-> "list", s |-> <<>>, items |-> items]

\* a Python dict: its (key, value) entries in insertion order, keys distinct
VMap(entries) == [t |-> "map", s |-> <<>>, items |-> entries]

\* one entry of a dict
KV(k, v) == [k |-> k, v |-> v]

IsStr(v) == v.t = "str"

\* isinstance(v, list)
IsList(v) == v.t = "list"

\* isinstance(v, dict)
IsDict(v) == v.t = "map"

\* bool(v)
Truthy(v) ==
  CASE v.t = "str" -> v.s # <<>>
    [] v.t = "num" -> v.s # <<"0">>
    [] v.t = "bool" -> v = VTrue
    [] v.t = "null" -> FALSE
    [] OTHER -> v.items # <<>>

\* key in d
HasKey(d, k) == \E i \in 1..Len(d.items) : d.items[i].k = k

\* d.get(k, default)
Get(d, k, default) ==
  IF HasKey(d, k)
  THEN d.items[CHOOSE i \in 1..Len(d.items) : d.items[i].k = k].v
  ELSE default

\* list(d.keys())
Keys(d) == [i \in 1..Len(d.items) |-> d.items[i].k]

\* set(seq)
Range(seq) == {seq[i] : i \in 1..Len(seq)}

\* the concatenation of a sequence of sequences
RECURSIVE Flatten(_)
Flatten(ss) == IF ss = <<>> THEN <<>> ELSE Head(ss) \o Flatten(Tail(ss))

\* sep.join(parts)
RECURSIVE Join(_, _)
Join(sep, parts) ==
  IF parts = <<>> THEN <<>>
  ELSE IF Len(parts) = 1 THEN parts[1]
  ELSE parts[1] \o sep \o Join(sep, Tail(parts))

\* repr() of a str: single quotes unless it has a single and no double quote
\* (the inputs hold no character that repr would escape)
ReprStr(s) ==
  IF Contains(s, <<"'">>) /\ ~Contains(s, <<"\"">>)
  THEN <<"\"">> \o s \o <<"\"">>
  ELSE <<"'">> \o s \o <<"'">>

\* str(v) and repr(v)
RECURSIVE StrOf(_), Repr(_)
StrOf(v) ==
  CASE v.t = "list" ->
         <<"[">> \o Join(<<",", " ">>, [i \in 1..Len(v.items) |-> Repr(v.items[i])])
                 \o <<"]">>
    [] v.t = "map" ->
         <<"{">> \o Join(<<",", " ">>,
                         [i \in 1..Len(v.items) |->
                            ReprStr(v.items[i].k) \o <<":", " ">> \o Repr(v.items[i].v)])
                 \o <<"}">>
    [] OTHER -> v.s
Repr(v) == IF v.t = "str" THEN ReprStr(v.s) ELSE StrOf(v)

\* the one-element-list unwrapping every check repeats:
\*   if isinstance(x, list): x = x[0] if x else default
Unwrap(x, default) ==
  IF IsList(x) THEN (IF x.items # <<>> THEN x.items[1] ELSE default) ELSE x

\* _iter_blocks(data, key)
_iter_blocks(data, key) ==
  LET blocks == Get(data, key, VList(<<>>))
  IN IF IsList(blocks) THEN blocks.items ELSE <<blocks>>

\* "x if isinstance(x, list) else [x]"
AsList(x) == IF IsList(x) THEN x.items ELSE <<x>>

(***************************************************************************)
(* Regular expressions of the checks                                       *)
(***************************************************************************)

\* does var\.(\w+) match at position i of text?
VarRefAt(text, i) ==
  MatchAt(text, i, <<"v", "a", "r", ".">>) /\ RunLen(text, i + 4, WordChars) >= 1

\* re.findall(r"var\.(\w+)", text), scanning from position i: the leftmost
\* match, then the matches after its end
RECURSIVE FindVarRefs(_, _)
FindVarRefs(text, i) ==
  LET at == {j \in i..Len(text) : VarRefAt(text, j)}
      m == Min(at)
      n == RunLen(text, m + 4, WordChars)
  IN IF at = {} THEN <<>>
     ELSE <<SubSeq(text, m + 4, m + 3 + n)>> \o FindVarRefs(text, m + 4 + n)

\* length of the match of (?:module|data|local|aws_\w+) at position i, 0 if none
RefHeadLen(text, i) ==
  IF MatchAt(text, i, <<"m", "o", "d", "u", "l", "e">>) /\ MatchAt(text, i + 6, <<".">>)
  THEN 6
  ELSE IF MatchAt(text, i, <<"d", "a", "t", "a">>) /\ MatchAt(text, i + 4, <<".">>)
  THEN 4
  ELSE IF MatchAt(text, i, <<"l", "o", "c", "a", "l">>) /\ MatchAt(text, i + 5, <<".">>)
  THEN 5
  ELSE IF MatchAt(text, i, <<"a", "w", "s", "_">>)
          /\ RunLen(text, i + 4, WordChars) >= 1
          /\ MatchAt(text, i + 4 + RunLen(text, i + 4, WordChars), <<".">>)
  THEN 4 + RunLen(text, i + 4, WordChars)
  ELSE 0

\* does (?:module|data|local|aws_\w+)\.\w+ match at position i of text?
RefAt(text, i) ==
  RefHeadLen(text, i) > 0 /\ RunLen(text, i + RefHeadLen(text, i) + 1, WordChars) >= 1

\* re.findall(r"(?:module|data|local|aws_\w+)\.\w+", text), scanning from i
RECURSIVE FindRefs(_, _)
FindRefs(text, i) ==
  LET at == {j \in i..Len(text) : RefAt(text, j)}
      m == Min(at)
      h == RefHeadLen(text, m)
      n == RunLen(text, m + h + 1, WordChars)
  IN IF at = {} THEN <<>>
     ELSE <<SubSeq(text, m, m + h + n)>> \o FindRefs(text, m + h + 1 + n)

(***************************************************************************)
(* Constants of terraform_module_analyzer.py                               *)
(***************************************************************************)

CRITICAL == "critical"

WARNING == "warning"

INFO == "info"

\* the block kinds and attribute names the checks read
Key ==
  [module |-> <<"m", "o", "d", "u", "l", "e">>,
   variable |-> <<"v", "a", "r", "i", "a", "b", "l", "e">>,
   resource |-> <<"r", "e", "s", "o", "u", "r", "c", "e">>,
   output |-> <<"o", "u", "t", "p", "u", "t">>,
   data |-> <<"d", "a", "t", "a">>,
   locals |-> <<"l", "o", "c", "a", "l", "s">>,
   provider |-> <<"p", "r", "o", "v", "i", "d", "e", "r">>,
   source |-> <<"s", "o", "u", "r", "c", "e">>,
   version |-> <<"v", "e", "r", "s", "i", "o", "n">>,
   providers |-> <<"p", "r", "o", "v", "i", "d", "e", "r", "s">>,
   depends_on |-> <<"d", "e", "p", "e", "n", "d", "s", "_", "o", "n">>,
   count |-> <<"c", "o", "u", "n", "t">>,
   for_each |-> <<"f", "o", "r", "_", "e", "a", "c", "h">>,
   default |-> <<"d", "e", "f", "a", "u", "l", "t">>,
   sensitive |-> <<"s", "e", "n", "s", "i", "t", "i", "v", "e">>,
   value |-> <<"v", "a", "l", "u", "e">>]

\* the string literals the checks compare with
Lit ==
  [dot_slash |-> <<".", "/">>,
   dotdot_slash |-> <<".", ".", "/">>,
   slash |-> <<"/">>,
   github_com |-> <<"g", "i", "t", "h", "u", "b", ".", "c", "o", "m">>,
   terraform_io |-> <<"t", "e", "r", "r", "a", "f", "o", "r", "m", ".", "i",
        "o">>,
   git_colons |-> <<"g", "i", "t", ":", ":">>,
   git |-> <<"g", "i", "t">>,
   ref |-> <<"?", "r", "e", "f", "=">>,
   tf |-> <<".", "t", "f">>,
   tfvars |-> <<".", "t", "f", "v", "a", "r", "s">>]

SENSITIVE_VARIABLE_PATTERNS ==
  << <<"p", "a", "s", "s", "w", "o", "r", "d">>,
     <<"s", "e", "c", "r", "e", "t">>,
     <<"t", "o", "k", "e", "n">>,
     <<"a", "p", "i", "_", "k", "e", "y">>,
     <<"a", "c", "c", "e", "s", "s", "_", "k", "e", "y">>,
     <<"p", "r", "i", "v", "a", "t", "e", "_", "k", "e", "y">>,
     <<"c", "r", "e", "d", "e", "n", "t", "i", "a", "l", "s">>,
     <<"c", "o", "n", "n", "e", "c", "t", "i", "o", "n", "_", "s", "t", "r", "i", "n", "g">>,
     <<"a", "u", "t", "h">>,
     <<"d", "b", "_", "p", "a", "s", "s">>,
     <<"m", "a", "s", "t", "e", "r", "_", "p", "a", "s", "s", "w", "o", "r", "d">>,
     <<"a", "d", "m", "i", "n", "_", "p", "a", "s", "s", "w", "o", "r", "d">> >>

TRUSTED_REGISTRY_PREFIXES ==
  << <<"h", "a", "s", "h", "i", "c", "o", "r", "p", "/">>,
     <<"r", "e", "g", "i", "s", "t", "r", "y", ".", "t", "e", "r", "r", "a", "f", "o", "r", "m", ".", "i", "o", "/">>,
     <<".", "/">>,
     <<".", ".", "/">> >>

RESOURCE_COST_MAP ==
  << [type |-> <<"a", "w", "s", "_", "n", "a", "t", "_", "g", "a", "t", "e", "w", "a", "y">>,
      tier |-> "high", label |-> "NAT Gateway", low |-> 32, high |-> 100],
     [type |-> <<"a", "w", "s", "_", "i", "n", "s", "t", "a", "n", "c", "e">>,
      tier |-> "medium", label |-> "EC2 Instance", low |-> 10, high |-> 500],
     [type |-> <<"a", "w", "s", "_", "d", "b", "_", "i", "n", "s", "t", "a", "n", "c", "e">>,
      tier |-> "high", label |-> "RDS Instance", low |-> 25, high |-> 1000],
     [type |-> <<"a", "w", "s", "_", "d", "b", "_", "c", "l", "u", "s", "t", "e", "r">>,
      tier |-> "very_high", label |-> "RDS Aurora Cluster", low |-> 50, high |-> 2000],
     [type |-> <<"a", "w", "s", "_", "e", "k", "s", "_", "c", "l", "u", "s", "t", "e", "r">>,
      tier |-> "very_high", label |-> "EKS Cluster", low |-> 73, high |-> 500],
     [type |-> <<"a", "w", "s", "_", "e", "k", "s", "_", "n", "o", "d", "e", "_", "g", "r", "o", "u", "p">>,
      tier |-> "high", label |-> "EKS Node Group", low |-> 50, high |-> 2000],
     [type |-> <<"a", "w", "s", "_", "e", "l", "a", "s", "t", "i", "c", "a", "c", "h", "e", "_", "c", "l", "u", "s", "t", "e", "r">>,
      tier |-> "high", label |-> "ElastiCache Cluster", low |-> 25, high |-> 500],
     [type |-> <<"a", "w", "s", "_", "c", "l", "o", "u", "d", "f", "r", "o", "n", "t", "_", "d", "i", "s", "t", "r", "i", "b", "u", "t", "i", "o", "n">>,
      tier |-> "medium", label |-> "CloudFront Distribution", low |-> 1, high |-> 500],
     [type |-> <<"a", "w", "s", "_", "l", "a", "m", "b", "d", "a", "_", "f", "u", "n", "c", "t", "i", "o", "n">>,
      tier |-> "low", label |-> "Lambda Function", low |-> 0, high |-> 50],
     [type |-> <<"a", "w", "s", "_", "s", "3", "_", "b", "u", "c", "k", "e", "t">>,
      tier |-> "low", label |-> "S3 Bucket", low |-> 0, high |-> 100],
     [type |-> <<"a", "w", "s", "_", "s", "q", "s", "_", "q", "u", "e", "u", "e">>,
      tier |-> "low", label |-> "SQS Queue", low |-> 0, high |-> 10],
     [type |-> <<"a", "w", "s", "_", "s", "n", "s", "_", "t", "o", "p", "i", "c">>,
      tier |-> "low", label |-> "SNS Topic", low |-> 0, high |-> 10],
     [type |-> <<"a", "w", "s", "_", "e", "i", "p">>,
      tier |-> "low", label |-> "Elastic IP", low |-> 4, high |-> 4],
     [type |-> <<"a", "w", "s", "_", "e", "c", "s", "_", "c", "l", "u", "s", "t", "e", "r">>,
      tier |-> "medium", label |-> "ECS Cluster", low |-> 0, high |-> 200],
     [type |-> <<"a", "w", "s", "_", "e", "c", "s", "_", "s", "e", "r", "v", "i", "c", "e">>,
      tier |-> "medium", label |-> "ECS Service (Fargate)", low |-> 10, high |-> 500],
     [type |-> <<"a", "w", "s", "_", "v", "p", "c">>,
      tier |-> "low", label |-> "VPC", low |-> 0, high |-> 0],
     [type |-> <<"a", "w", "s", "_", "s", "u", "b", "n", "e", "t">>,
      tier |-> "low", label |-> "Subnet", low |-> 0, high |-> 0],
     [type |-> <<"a", "w", "s", "_", "i", "a", "m", "_", "r", "o", "l", "e">>,
      tier |-> "low", label |-> "IAM Role", low |-> 0, high |-> 0] >>

\* the meta_keys of a module call
meta_keys == {Key.source, Key.version, Key.providers, Key.depends_on, Key.count, Key.for_each}

(***************************************************************************)
(* Files.  A file of the input map has a name and a text; for the text,    *)
(* hcl.ok tells whether hcl2.load accepts it and hcl.tree is the mapping   *)
(* hcl2.load returns then.  The text of a file that loads is the rendering *)
(* of its tree (Render), so that text and tree agree.                      *)
(***************************************************************************)

\* the text of an attribute value: an interpolation "${expr}" is the bare
\* expression expr, any other str is quoted
RECURSIVE RenderVal(_)
RenderVal(v) ==
  CASE v.t = "str" ->
         IF StartsWith(v.s, <<"$", "{">>) /\ EndsWith(v.s, <<"}">>)
         THEN SubSeq(v.s, 3, Len(v.s) - 1)
         ELSE <<"\"">> \o v.s \o <<"\"">>
    [] v.t = "bool" -> Lower(v.s)
    [] v.t = "null" -> <<"n", "u", "l", "l">>
    [] v.t = "list" ->
         <<"[">> \o Join(<<",", " ">>, [i \in 1..Len(v.items) |-> RenderVal(v.items[i])])
                 \o <<"]">>
    [] v.t = "map" ->
         <<"{">> \o Flatten([i \in 1..Len(v.items) |->
                               <<" ">> \o v.items[i].k \o <<" ", "=", " ">>
                                       \o RenderVal(v.items[i].v)])
                 \o <<" ", "}">>
    [] OTHER -> v.s

\* the text of one block of kind `kind`: a labelled block for a mapping
\* (two labels for resource and data), a top-level attribute otherwise
RenderBlock(kind, b) ==
  IF ~IsDict(b) THEN kind \o <<" ", "=", " ">> \o RenderVal(b) \o <<"\n">>
  ELSE IF kind = Key.locals THEN kind \o <<" ">> \o RenderVal(b) \o <<"\n">>
  ELSE Flatten([i \in 1..Len(b.items) |->
         IF kind \in {Key.resource, Key.data} /\ IsDict(b.items[i].v)
         THEN Flatten([j \in 1..Len(b.items[i].v.items) |->
                kind \o <<" ", "\"">> \o b.items[i].k \o <<"\"", " ", "\"">>
                     \o b.items[i].v.items[j].k \o <<"\"", " ">>
                     \o RenderVal(b.items[i].v.items[j].v) \o <<"\n">>])
         ELSE kind \o <<" ", "\"">> \o b.items[i].k \o <<"\"", " ">>
                   \o RenderVal(b.items[i].v) \o <<"\n">>])

\* the text hcl2.load maps to tree
Render(tree) ==
  Flatten([i \in 1..Len(tree.items) |->
             Flatten([j \in 1..Len(AsList(tree.items[i].v)) |->
                        RenderBlock(tree.items[i].k, AsList(tree.items[i].v)[j])])])

\* a file whose text loads to tree
TfFile(name, tree) == [name |-> name, text |-> <<>>, hcl |-> [ok |-> TRUE, tree |-> tree]]

\* a file whose text hcl2.load rejects, or that is never loaded
TextFile(name, text) ==
  [name |-> name, text |-> text, hcl |-> [ok |-> FALSE, tree |-> VMap(<<>>)]]

\* the text of a file: the value of the entry of the input map
Content(f) == IF f.hcl.ok THEN Render(f.hcl.tree) ELSE f.text

\* _parse_tf_content(content): the tree, or {} when hcl2 is missing or
\* hcl2.load raises (hcl.ok is false in both cases)
_parse_tf_content(f) == IF f.hcl.ok THEN f.hcl.tree ELSE VMap(<<>>)

(***************************************************************************)
(* Findings.  A message is the f-string that builds it: its kind (the      *)
(* fixed text), the file name it starts with and the names interpolated;   *)
(* a recommendation likewise.                                              *)
(***************************************************************************)

Msg(kind, file, a, b) == [kind |-> kind, file |-> file, a |-> a, b |-> b]

Rec(kind, a, b) == [kind |-> kind, a |-> a, b |-> b]

Finding(sev, msg, rec) == [severity |-> sev, message |-> msg, recommendation |-> rec]

\* flat-map: the concatenation of F(seq[1]), F(seq[2]), ...
FlatMap(seq, F(_)) == Flatten([i \in 1..Len(seq) |-> F(seq[i])])

\* The loop nest shared by the checks over `kind` blocks:
\*   for filename, parsed in parsed_files.items():
\*     for block in _iter_blocks(parsed, kind):
\*       if not isinstance(block, dict): continue
\*       for name, configs in block.items():
\*         if not isinstance(configs, list): configs = [configs]
\*         for config in configs:
\* yields (filename, name, config) in iteration order.
BlockConfigs(parsed_files, kind) ==
  LET OfEntry(filename, e) ==
        LET configs == AsList(e.v)
        IN [i \in 1..Len(configs) |->
              [filename |-> filename, name |-> e.k, config |-> configs[i]]]
      OfBlock(filename, b) ==
        IF ~IsDict(b) THEN <<>>
        ELSE Flatten([i \in 1..Len(b.items) |-> OfEntry(filename, b.items[i])])
      OfFile(f) ==
        LET blocks == _iter_blocks(f.parsed, kind)
        IN Flatten([i \in 1..Len(blocks) |-> OfBlock(f.name, blocks[i])])
  IN FlatMap(parsed_files, OfFile)

\* The same loop nest stopping at the keys of the block:
\*   for name in block  -- yields (filename, name, value)
BlockEntries(parsed_files, kind) ==
  LET OfBlock(filename, b) ==
        IF ~IsDict(b) THEN <<>>
        ELSE [i \in 1..Len(b.items) |->
                [filename |-> filename, name |-> b.items[i].k, value |-> b.items[i].v]]
      OfFile(f) ==
        LET blocks == _iter_blocks(f.parsed, kind)
        IN Flatten([i \in 1..Len(blocks) |-> OfBlock(f.name, blocks[i])])
  IN FlatMap(parsed_files, OfFile)

\* source = config.get("source", ""); unwrapped when it is a list
SourceOf(config) == Unwrap(Get(config, Key.source, VStr(<<>>)), VStr(<<>>))

\* version = config.get("version", ""); unwrapped when it is a list
VersionOf(config) == Unwrap(Get(config, Key.version, VStr(<<>>)), VStr(<<>>))

\* the module calls the checks look at: the configs that are mappings
ModuleCalls(parsed_files) ==
  SelectSeq(BlockConfigs(parsed_files, Key.module), LAMBDA c : IsDict(c.config))

(***************************************************************************)
(* Module structure checks                                                 *)
(***************************************************************************)

\* normalized.lstrip("./").lstrip("../")
module_dir_prefix(source) ==
  LStrip(LStrip(RStrip(source, {"/"}), {".", "/"}), {".", "/"})

\* has_files of _check_module_sources
has_files(source, all_tf_paths) ==
  \E i \in 1..Len(all_tf_paths) :
     \/ StartsWith(all_tf_paths[i], module_dir_prefix(source) \o Lit.slash)
     \/ StartsWith(all_tf_paths[i], RStrip(source, {"/"}) \o Lit.slash)

\* any(source.startswith(prefix) for prefix in TRUSTED_REGISTRY_PREFIXES)
HasTrustedPrefix(source) ==
  \E i \in 1..Len(TRUSTED_REGISTRY_PREFIXES) :
     StartsWith(source, TRUSTED_REGISTRY_PREFIXES[i])

\* the findings of _check_module_sources for one module call
ModuleSourceFindings(c, all_tf_paths) ==
  LET source == SourceOf(c.config)
  IN IF ~Truthy(source)
     THEN << Finding(CRITICAL, Msg("no_source", c.filename, c.name, <<>>),
                     Rec("no_source", <<>>, <<>>)) >>
     ELSE IF StartsWith(source.s, Lit.dot_slash) \/ StartsWith(source.s, Lit.dotdot_slash)
     THEN IF ~has_files(source.s, all_tf_paths)
          THEN << Finding(WARNING, Msg("no_tf_files", c.filename, c.name, source.s),
                          Rec("no_tf_files", <<>>, <<>>)) >>
          ELSE <<>>
     ELSE IF ~HasTrustedPrefix(source.s)
     THEN IF ~Contains(source.s, Lit.github_com) /\ ~Contains(source.s, Lit.terraform_io)
          THEN << Finding(WARNING, Msg("untrusted_source", c.filename, c.name, source.s),
                          Rec("untrusted_source", <<>>, <<>>)) >>
          ELSE <<>>
     ELSE <<>>

\* _check_module_sources raises AttributeError: source.startswith on a
\* truthy source that is not a str
_check_module_sources_raises(parsed_files) ==
  LET calls_ == ModuleCalls(parsed_files)
  IN \E i \in 1..Len(calls_) :
        Truthy(SourceOf(calls_[i].config)) /\ ~IsStr(SourceOf(calls_[i].config))

_check_module_sources(parsed_files, all_tf_paths) ==
  LET F(c) == ModuleSourceFindings(c, all_tf_paths)
  IN FlatMap(ModuleCalls(parsed_files), F)

\* has_default = isinstance(var_config, dict) and "default" in var_config
has_default(var_config) == IsDict(var_config) /\ HasKey(var_config, Key.default)

\* module_vars: directory prefix -> {var_name: has_default}; a later
\* declaration of the same name in the same directory overwrites
module_vars(parsed_files) ==
  LET decls == BlockConfigs(parsed_files, Key.variable)
      dirs == {DirPrefix(decls[i].filename) : i \in 1..Len(decls)}
      idx(d) == {i \in 1..Len(decls) : DirPrefix(decls[i].filename) = d}
      last(d, n) == CHOOSE i \in idx(d) :
                       /\ decls[i].name = n
                       /\ \A j \in idx(d) : decls[j].name = n => j <= i
  IN [d \in dirs |->
        [n \in {decls[i].name : i \in idx(d)} |-> has_default(decls[last(d, n)].config)]]

\* resolved_dir of a module call
resolved_dir(filename, source) ==
  LET caller_dir == DirPrefix(filename)
      dir == RStrip(Remove(Remove(source, Lit.dot_slash), Lit.dotdot_slash), {"/"})
  IN IF caller_dir # <<>> THEN caller_dir \o Lit.slash \o dir ELSE dir


\* missing without the subtraction of the passed arguments
missing_m(c, mv) ==
  LET dir == resolved_dir(c.filename, SourceOf(c.config).s)
  IN {n \in DOMAIN mv[dir] : ~mv[dir][n]}

\* missing = required_vars - passed_args of one module call
missing(c, mv) ==
  LET dir == resolved_dir(c.filename, SourceOf(c.config).s)
      passed_args == Range(Keys(c.config)) \ meta_keys
      required_vars == {n \in DOMAIN mv[dir] : ~mv[dir][n]}
  IN required_vars \ passed_args

\* the findings of _check_module_required_variables for one module call
RequiredVariableFindings(c, mv) ==
  LET source == SourceOf(c.config).s
  IN IF ~(StartsWith(source, Lit.dot_slash) \/ StartsWith(source, Lit.dotdot_slash))
     THEN <<>>
     ELSE IF resolved_dir(c.filename, source) \notin DOMAIN mv
     THEN <<>>
     ELSE LET vars_ == Sorted(missing(c, mv))
          IN [i \in 1..Len(vars_) |->
                Finding(CRITICAL,
                        Msg("missing_required_variable", c.filename, c.name, vars_[i]),
                        Rec("missing_required_variable", vars_[i], c.name))]

\* _check_module_required_variables raises AttributeError: source.startswith
\* on a source that is not a str
_check_module_required_variables_raises(parsed_files) ==
  LET calls_ == ModuleCalls(parsed_files)
  IN \E i \in 1..Len(calls_) : ~IsStr(SourceOf(calls_[i].config))

_check_module_required_variables(parsed_files) ==
  LET mv == module_vars(parsed_files)
      F(c) == RequiredVariableFindings(c, mv)
  IN FlatMap(ModuleCalls(parsed_files), F)

\* declared_vars of _check_variable_usage: the declared names in the order
\* of their first declaration (the key order of the dict)
declared_var_names(parsed_files) ==
  LET e == BlockEntries(parsed_files, Key.variable)
      first == SelectSeq([i \in 1..Len(e) |-> i],
                         LAMBDA i : \A j \in 1..(i - 1) : e[j].name # e[i].name)
  IN [k \in 1..Len(first) |-> e[first[k]].name]

\* declared_vars[var_name]: the file of the last declaration of the name
declaring_file(parsed_files, var_name) ==
  LET e == BlockEntries(parsed_files, Key.variable)
      last == CHOOSE i \in 1..Len(e) :
                 e[i].name = var_name /\ \A j \in (i + 1)..Len(e) : e[j].name # var_name
  IN e[last].filename

\* all_content = " ".join(raw_files.values())
all_content(raw_files) ==
  Join(<<" ">>, [i \in 1..Len(raw_files) |-> Content(raw_files[i])])

\* used_var_names = set(re.findall(r"var\.(\w+)", all_content))
used_var_names(raw_files) == Range(FindVarRefs(all_content(raw_files), 1))

\* the orders in which a set can be iterated
Orders(S) ==
  {p \in [1..Cardinality(S) -> S] : \A i, j \in 1..Cardinality(S) : p[i] = p[j] => i = j}

\* _check_variable_usage; used_order is the order in which the interpreter
\* iterates the set used_var_names
_check_variable_usage(parsed_files, raw_files, used_order) ==
  LET declared == declared_var_names(parsed_files)
      used == used_var_names(raw_files)
      unused == SelectSeq(declared, LAMBDA v : v \notin used)
      undeclared == SelectSeq(used_order, LAMBDA v : v \notin Range(declared))
  IN [i \in 1..Len(unused) |->
        Finding(INFO, Msg("never_referenced", declaring_file(parsed_files, unused[i]),
                          unused[i], <<>>),
                Rec("never_referenced", unused[i], <<>>))]
     \o
     [i \in 1..Len(undeclared) |->
        Finding(WARNING, Msg("never_declared", <<>>, undeclared[i], <<>>),
                Rec("never_declared", undeclared[i], <<>>))]

\* the names type.name declared by the `kind` blocks (resource or data):
\*   for type, instances in block.items(): ... for inst in instances:
\*     if isinstance(inst, dict): for name in inst: add(prefix + type + "." + name)
TypedNames(parsed_files, kind, prefix) ==
  LET insts == SelectSeq(BlockConfigs(parsed_files, kind), LAMBDA c : IsDict(c.config))
  IN UNION {{prefix \o insts[i].name \o <<".">> \o Keys(insts[i].config)[j] :
               j \in 1..Len(insts[i].config.items)} : i \in 1..Len(insts)}

declared_resources(parsed_files) == TypedNames(parsed_files, Key.resource, <<>>)

declared_data_sources(parsed_files) == TypedNames(parsed_files, Key.data, Key.data \o <<".">>)

declared_modules(parsed_files) ==
  LET e == BlockEntries(parsed_files, Key.module)
  IN {Key.module \o <<".">> \o e[i].name : i \in 1..Len(e)}

declared_locals(parsed_files) ==
  LET e == BlockEntries(parsed_files, Key.locals)
  IN {<<"l", "o", "c", "a", "l", ".">> \o e[i].name : i \in 1..Len(e)}


\* RefUndeclared with the resource references looked up among the modules
RefUndeclared_m(ref, d) ==
  IF StartsWith(ref, Key.module \o <<".">>) /\ ref \notin d.modules
  THEN TRUE
  ELSE IF StartsWith(ref, Key.data \o <<".">>) /\ ref \notin d.data_sources
  THEN TRUE
  ELSE IF StartsWith(ref, <<"l", "o", "c", "a", "l", ".">>) /\ ref \notin d.locals
  THEN TRUE
  ELSE IF ~(\/ StartsWith(ref, Key.module \o <<".">>)
            \/ StartsWith(ref, Key.data \o <<".">>)
            \/ StartsWith(ref, <<"l", "o", "c", "a", "l", ".">>))
  THEN ref \notin d.modules
  ELSE FALSE

\* the branch of _check_output_references for one reference: is it reported?
\* (d holds the four sets of declared identifiers)
RefUndeclared(ref, d) ==
  IF StartsWith(ref, Key.module \o <<".">>) /\ ref \notin d.modules
  THEN TRUE
  ELSE IF StartsWith(ref, Key.data \o <<".">>) /\ ref \notin d.data_sources
  THEN TRUE
  ELSE IF StartsWith(ref, <<"l", "o", "c", "a", "l", ".">>) /\ ref \notin d.locals
  THEN TRUE
  ELSE IF ~(\/ StartsWith(ref, Key.module \o <<".">>)
            \/ StartsWith(ref, Key.data \o <<".">>)
            \/ StartsWith(ref, <<"l", "o", "c", "a", "l", ".">>))
  THEN ref \notin d.resources
  ELSE FALSE

\* refs = re.findall(..., str(output_config.get("value", "")))
OutputRefs(output_config) == FindRefs(StrOf(Get(output_config, Key.value, VStr(<<>>))), 1)

\* Declared that has seen the first file only
Declared_m(parsed_files) ==
  LET seen == SubSeq(parsed_files, 1, 1)
  IN [resources |-> declared_resources(seen),
      data_sources |-> declared_data_sources(seen),
      modules |-> declared_modules(seen),
      locals |-> declared_locals(seen)]

\* the declared identifiers collected by the first loop
Declared(parsed_files) ==
  [resources |-> declared_resources(parsed_files),
   data_sources |-> declared_data_sources(parsed_files),
   modules |-> declared_modules(parsed_files),
   locals |-> declared_locals(parsed_files)]

_check_output_references(parsed_files) ==
  LET outs == SelectSeq(BlockConfigs(parsed_files, Key.output), LAMBDA c : IsDict(c.config))
      d == Declared(parsed_files)
      OfOutput(c) ==
        LET bad == SelectSeq(OutputRefs(c.config), LAMBDA r : RefUndeclared(r, d))
        IN [i \in 1..Len(bad) |->
              Finding(WARNING, Msg("undeclared_ref", c.filename, c.name, bad[i]),
                      Rec("undeclared_ref", bad[i], <<>>))]
  IN FlatMap(outs, OfOutput)

(***************************************************************************)
(* Security checks                                                         *)
(***************************************************************************)

\* any(pat in text for pat in SENSITIVE_VARIABLE_PATTERNS)
MatchesSensitivePattern(text) ==
  \E i \in 1..Len(SENSITIVE_VARIABLE_PATTERNS) :
     Contains(text, SENSITIVE_VARIABLE_PATTERNS[i])

\* sensitive_flag = config.get("sensitive", [False]); unwrapped when a list
sensitive_flag(config) == Unwrap(Get(config, Key.sensitive, VList(<<VFalse>>)), VFalse)

\* default_val is not None and default_val != "" and default_val != []
HasHardcodedDefault(config) ==
  LET default_val == Unwrap(Get(config, Key.default, VNone), VNone)
  IN /\ default_val # VNone
     /\ default_val # VStr(<<>>)
     /\ default_val # VList(<<>>)


\* _check_sensitive_variables skipping a variable altogether once its
\* sensitive flag is set
_check_sensitive_variables_m(parsed_files) ==
  LET vars == SelectSeq(BlockConfigs(parsed_files, Key.variable),
                        LAMBDA c : MatchesSensitivePattern(Lower(c.name)) /\ IsDict(c.config))
      OfVar(c) ==
        IF Truthy(sensitive_flag(c.config)) THEN <<>>
        ELSE << Finding(CRITICAL, Msg("lacks_sensitive", c.filename, c.name, <<>>),
                        Rec("lacks_sensitive", c.name, <<>>)) >>
             \o
             (IF HasHardcodedDefault(c.config)
              THEN << Finding(CRITICAL, Msg("hardcoded_default", c.filename, c.name, <<>>),
                              Rec("hardcoded_default", c.name, <<>>)) >>
              ELSE <<>>)
  IN FlatMap(vars, OfVar)

_check_sensitive_variables(parsed_files) ==
  LET vars == SelectSeq(BlockConfigs(parsed_files, Key.variable),
                        LAMBDA c : MatchesSensitivePattern(Lower(c.name)) /\ IsDict(c.config))
      OfVar(c) ==
        (IF ~Truthy(sensitive_flag(c.config))
         THEN << Finding(CRITICAL, Msg("lacks_sensitive", c.filename, c.name, <<>>),
                         Rec("lacks_sensitive", c.name, <<>>)) >>
         ELSE <<>>)
        \o
        (IF HasHardcodedDefault(c.config)
         THEN << Finding(CRITICAL, Msg("hardcoded_default", c.filename, c.name, <<>>),
                         Rec("hardcoded_default", c.name, <<>>)) >>
         ELSE <<>>)
  IN FlatMap(vars, OfVar)

\* is_sensitive of _check_sensitive_outputs
OutputIsSensitive(c) ==
  \/ MatchesSensitivePattern(Lower(StrOf(Get(c.config, Key.value, VStr(<<>>)))))
  \/ MatchesSensitivePattern(Lower(c.name))

_check_sensitive_outputs(parsed_files) ==
  LET outs == SelectSeq(BlockConfigs(parsed_files, Key.output),
                        LAMBDA c : IsDict(c.config) /\ OutputIsSensitive(c))
      OfOutput(c) ==
        IF ~Truthy(sensitive_flag(c.config))
        THEN << Finding(CRITICAL, Msg("output_exposes", c.filename, c.name, <<>>),
                        Rec("output_exposes", c.name, <<>>)) >>
        ELSE <<>>
  IN FlatMap(outs, OfOutput)

\* the keywords of the first pattern of secret_patterns
SecretKeywords ==
  << <<"p", "a", "s", "s", "w", "o", "r", "d">>,
     <<"s", "e", "c", "r", "e", "t">>,
     <<"a", "p", "i", "_", "k", "e", "y">>,
     <<"a", "c", "c", "e", "s", "s", "_", "k", "e", "y">>,
     <<"t", "o", "k", "e", "n">> >>

\* does (?i)(password|secret|api_key|access_key|token)\s*=\s*"[^${}][^"]{3,}"
\* match at position i of text, with the keyword kw?
SecretAssignAt(text, i, kw) ==
  LET eq == i + Len(kw) + RunLen(text, i + Len(kw), SpaceChars)
      quote == eq + 1 + RunLen(text, eq + 1, SpaceChars)
      run == RunLen(text, quote + 2, Range(Alphabet) \ {"\""})
  IN /\ i + Len(kw) - 1 <= Len(text)
     /\ Lower(SubSeq(text, i, i + Len(kw) - 1)) = kw
     /\ MatchAt(text, eq, <<"=">>)
     /\ MatchAt(text, quote, <<"\"">>)
     /\ quote + 1 <= Len(text)
     /\ text[quote + 1] \notin {"$", "{", "}"}
     /\ run >= 3
     /\ MatchAt(text, quote + 2 + run, <<"\"">>)

\* re.search of the first pattern
HasSecretAssign(text) ==
  \E i \in 1..Len(text) : \E k \in 1..Len(SecretKeywords) :
     SecretAssignAt(text, i, SecretKeywords[k])

\* re.search(r"AKIA[0-9A-Z]{16}", text)
HasAccessKeyId(text) ==
  \E i \in 1..Len(text) :
     /\ MatchAt(text, i, <<"A", "K", "I", "A">>)
     /\ i + 19 <= Len(text)
     /\ \A j \in (i + 4)..(i + 19) : text[j] \in DigitChars \cup UpperChars

\* _check_tfvars_secrets scanning the files of every extension
_check_tfvars_secrets_m(raw_files) ==
  LET OfFile(f) ==
        (IF HasSecretAssign(Content(f))
         THEN << Finding(CRITICAL, Msg("tfvars_secret", f.name, <<>>, <<>>),
                         Rec("tfvars", <<>>, <<>>)) >>
         ELSE <<>>)
        \o
        (IF HasAccessKeyId(Content(f))
         THEN << Finding(CRITICAL, Msg("tfvars_access_key", f.name, <<>>, <<>>),
                         Rec("tfvars", <<>>, <<>>)) >>
         ELSE <<>>)
  IN FlatMap(raw_files, OfFile)

_check_tfvars_secrets(raw_files) ==
  LET OfFile(f) ==
        IF ~EndsWith(f.name, Lit.tfvars) THEN <<>>
        ELSE (IF HasSecretAssign(Content(f))
              THEN << Finding(CRITICAL, Msg("tfvars_secret", f.name, <<>>, <<>>),
                              Rec("tfvars", <<>>, <<>>)) >>
              ELSE <<>>)
             \o
             (IF HasAccessKeyId(Content(f))
              THEN << Finding(CRITICAL, Msg("tfvars_access_key", f.name, <<>>, <<>>),
                              Rec("tfvars", <<>>, <<>>)) >>
              ELSE <<>>)
  IN FlatMap(raw_files, OfFile)

\* In that looks for x at the start of a str only
In_m(x, source) ==
  CASE source.t = "str" -> StartsWith(source.s, x)
    [] source.t = "map" -> HasKey(source, x)
    [] source.t = "list" -> \E i \in 1..Len(source.items) : source.items[i] = VStr(x)
    [] OTHER -> FALSE

\* "x in source" for a source of any type: substring of a str, key of a dict,
\* element of a list; TypeError (see the _raises operator) otherwise
In(x, source) ==
  CASE source.t = "str" -> Contains(source.s, x)
    [] source.t = "map" -> HasKey(source, x)
    [] source.t = "list" -> \E i \in 1..Len(source.items) : source.items[i] = VStr(x)
    [] OTHER -> FALSE


\* UntrustedSourceFindings without the `source and` guard of the registry check
UntrustedSourceFindings_m(c) ==
  LET source == SourceOf(c.config)
      version == VersionOf(c.config)
  IN (IF /\ In(Lit.git_colons, source) \/ (In(Lit.github_com, source) /\ In(Lit.git, source))
         /\ ~In(Lit.ref, source) /\ ~Truthy(version)
      THEN << Finding(WARNING, Msg("no_version_pinning", c.filename, c.name, <<>>),
                      Rec("no_version_pinning", <<>>, <<>>)) >>
      ELSE <<>>)
     \o
     (IF /\ ~StartsWith(source.s, Lit.dot_slash)
         /\ ~StartsWith(source.s, Lit.dotdot_slash)
         /\ ~In(Lit.git_colons, source)
         /\ ~In(Lit.github_com, source)
         /\ ~Truthy(version)
      THEN << Finding(WARNING, Msg("no_version_constraint", c.filename, c.name, <<>>),
                      Rec("no_version_constraint", <<>>, <<>>)) >>
      ELSE <<>>)

\* the findings of _check_untrusted_module_sources for one module call
UntrustedSourceFindings(c) ==
  LET source == SourceOf(c.config)
      version == VersionOf(c.config)
  IN (IF /\ In(Lit.git_colons, source) \/ (In(Lit.github_com, source) /\ In(Lit.git, source))
         /\ ~In(Lit.ref, source) /\ ~Truthy(version)
      THEN << Finding(WARNING, Msg("no_version_pinning", c.filename, c.name, <<>>),
                      Rec("no_version_pinning", <<>>, <<>>)) >>
      ELSE <<>>)
     \o
     (IF /\ ~StartsWith(source.s, Lit.dot_slash)
         /\ ~StartsWith(source.s, Lit.dotdot_slash)
         /\ ~In(Lit.git_colons, source)
         /\ ~In(Lit.github_com, source)
         /\ Truthy(source) /\ ~Truthy(version)
      THEN << Finding(WARNING, Msg("no_version_constraint", c.filename, c.name, <<>>),
                      Rec("no_version_constraint", <<>>, <<>>)) >>
      ELSE <<>>)

\* _check_untrusted_module_sources raises: `"git::" in source` is a TypeError
\* on a number, boolean or None, and source.startswith an AttributeError on
\* every other source that is not a str
_check_untrusted_module_sources_raises(parsed_files) ==
  LET calls_ == ModuleCalls(parsed_files)
  IN \E i \in 1..Len(calls_) : ~IsStr(SourceOf(calls_[i].config))

\* _check_untrusted_module_sources whose registry check does not exclude the
\* VCS-style sources
_check_untrusted_module_sources_m(parsed_files) ==
  LET OfCall(c) ==
        LET source == SourceOf(c.config)
            version == VersionOf(c.config)
        IN (IF /\ In(Lit.git_colons, source) \/ (In(Lit.github_com, source) /\ In(Lit.git, source))
               /\ ~In(Lit.ref, source) /\ ~Truthy(version)
            THEN << Finding(WARNING, Msg("no_version_pinning", c.filename, c.name, <<>>),
                            Rec("no_version_pinning", <<>>, <<>>)) >>
            ELSE <<>>)
           \o
           (IF /\ ~StartsWith(source.s, Lit.dot_slash)
               /\ ~StartsWith(source.s, Lit.dotdot_slash)
               /\ Truthy(source) /\ ~Truthy(version)
            THEN << Finding(WARNING, Msg("no_version_constraint", c.filename, c.name, <<>>),
                            Rec("no_version_constraint", <<>>, <<>>)) >>
            ELSE <<>>)
  IN FlatMap(ModuleCalls(parsed_files), OfCall)

_check_untrusted_module_sources(parsed_files) ==
  FlatMap(ModuleCalls(parsed_files), UntrustedSourceFindings)

(***************************************************************************)
(* Cost summary                                                            *)
(***************************************************************************)

\* resource_type in RESOURCE_COST_MAP
InCostMap(type) == \E i \in 1..Len(RESOURCE_COST_MAP) : RESOURCE_COST_MAP[i].type = type

\* RESOURCE_COST_MAP[resource_type]
CostOf(type) ==
  RESOURCE_COST_MAP[CHOOSE i \in 1..Len(RESOURCE_COST_MAP) : RESOURCE_COST_MAP[i].type = type]

\* str(n) for n >= 0
RECURSIVE IntToStr(_)
IntToStr(n) ==
  IF n < 10 THEN <<Alphabet[18 + n]>>
  ELSE IntToStr(n \div 10) \o <<Alphabet[18 + (n % 10)]>>

\* f"${low}-${high}"
RangeStr(low, high) == <<"$">> \o IntToStr(low) \o <<"-", "$">> \o IntToStr(high)

\* resource_costs: one entry per name of every mapping instance of a
\* resource type of the table
resource_costs(parsed_files) ==
  LET insts == SelectSeq(BlockConfigs(parsed_files, Key.resource),
                         LAMBDA c : InCostMap(c.name) /\ IsDict(c.config))
      OfInst(c) ==
        [j \in 1..Len(c.config.items) |->
           [resource_type |-> c.name,
            resource_name |-> Keys(c.config)[j],
            cost_tier |-> CostOf(c.name).tier,
            label |-> CostOf(c.name).label,
            estimated_monthly_range_usd |-> RangeStr(CostOf(c.name).low, CostOf(c.name).high),
            filename |-> c.filename]]
  IN FlatMap(insts, OfInst)

RECURSIVE SumSeq(_)
SumSeq(ns) == IF ns = <<>> THEN 0 ELSE Head(ns) + SumSeq(Tail(ns))

\* tier_counts without the count of the very_high tier
tier_counts_m(rcs) ==
  [tier \in {"low", "medium", "high", "very_high"} |->
     IF tier = "very_high" THEN 0
     ELSE Len(SelectSeq(rcs, LAMBDA rc : rc.cost_tier = tier))]

\* tier_counts
tier_counts(rcs) ==
  [tier \in {"low", "medium", "high", "very_high"} |->
     Len(SelectSeq(rcs, LAMBDA rc : rc.cost_tier = tier))]


\* cost_findings with the tier of a very_high entry used as its severity
cost_findings_m(rcs) ==
  LET costly == SelectSeq(rcs, LAMBDA rc : rc.cost_tier \in {"high", "very_high"})
  IN [i \in 1..Len(costly) |->
        Finding(IF costly[i].cost_tier = "high" THEN WARNING ELSE costly[i].cost_tier,
                Msg("costly_resource", costly[i].filename,
                    costly[i].resource_type, costly[i].resource_name),
                Rec("right_size", costly[i].resource_type, costly[i].resource_name))]

\* cost_findings
cost_findings(rcs) ==
  LET costly == SelectSeq(rcs, LAMBDA rc : rc.cost_tier \in {"high", "very_high"})
  IN [i \in 1..Len(costly) |->
        Finding(IF costly[i].cost_tier = "high" THEN WARNING ELSE CRITICAL,
                Msg("costly_resource", costly[i].filename,
                    costly[i].resource_type, costly[i].resource_name),
                Rec("right_size", costly[i].resource_type, costly[i].resource_name))]

\* _generate_cost_summary with the totals assigned, not accumulated
_generate_cost_summary_m(parsed_files) ==
  LET rcs == resource_costs(parsed_files)
  IN [resource_costs |-> rcs,
      tier_summary |-> tier_counts(rcs),
      estimated_monthly_total_usd |->
        (IF rcs = <<>> THEN RangeStr(0, 0)
         ELSE RangeStr(CostOf(rcs[Len(rcs)].resource_type).low,
                       CostOf(rcs[Len(rcs)].resource_type).high)),
      cost_findings |-> cost_findings(rcs)]

_generate_cost_summary(parsed_files) ==
  LET rcs == resource_costs(parsed_files)
  IN [resource_costs |-> rcs,
      tier_summary |-> tier_counts(rcs),
      estimated_monthly_total_usd |->
        RangeStr(SumSeq([i \in 1..Len(rcs) |-> CostOf(rcs[i].resource_type).low]),
                 SumSeq([i \in 1..Len(rcs) |-> CostOf(rcs[i].resource_type).high])),
      cost_findings |-> cost_findings(rcs)]

(***************************************************************************)
(* analyze_terraform_modules                                               *)
(***************************************************************************)

\* tf_files = {name: content for name, content in files.items() if name.endswith(".tf")}
tf_files(fs) == SelectSeq(fs, LAMBDA f : EndsWith(f.name, Lit.tf))

\* all_tf_paths = list(tf_files.keys())
all_tf_paths(fs) ==
  LET tf == tf_files(fs) IN [i \in 1..Len(tf) |-> tf[i].name]


\* the parse loop leaving at the first file that fails to parse
ParsedFiles_m(fs) ==
  LET tf == tf_files(fs)
      loaded == [i \in 1..Len(tf) |->
                   [name |-> tf[i].name, parsed |-> _parse_tf_content(tf[i])]]
      stop == Min({i \in 1..Len(loaded) : ~Truthy(loaded[i].parsed)} \cup {Len(loaded) + 1})
  IN SubSeq(loaded, 1, stop - 1)

\* the parse loop: parsed_files holds the files whose tree is truthy
ParsedFiles(fs) ==
  LET tf == tf_files(fs)
      loaded == [i \in 1..Len(tf) |->
                   [name |-> tf[i].name, parsed |-> _parse_tf_content(tf[i])]]
  IN SelectSeq(loaded, LAMBDA f : Truthy(f.parsed))

\* the parse loop: one info finding per file whose tree is falsy
ParseFindings(fs) ==
  LET failed == SelectSeq(tf_files(fs),
                          LAMBDA f : ~Truthy(_parse_tf_content(f)))
  IN [i \in 1..Len(failed) |->
        Finding(INFO, Msg("could_not_parse", failed[i].name, <<>>, <<>>),
                Rec("terraform_validate", <<>>, <<>>))]

\* list(seq): every element kept
Dedup_m(seq) == seq

\* list(dict.fromkeys(seq)): the distinct elements in first-seen order
Dedup(seq) ==
  LET first == SelectSeq([i \in 1..Len(seq) |-> i],
                         LAMBDA i : \A j \in 1..(i - 1) : seq[j] # seq[i])
  IN [k \in 1..Len(first) |-> seq[first[k]]]


\* the maturity rating with `< 3` for `<= 3`
Maturity_m(ncritical, nwarnings) ==
  IF ncritical = 0 /\ nwarnings = 0 THEN "production-leaning"
  ELSE IF ncritical = 0 /\ nwarnings < 3 THEN "developing"
  ELSE "basic"

\* the maturity rating
Maturity(ncritical, nwarnings) ==
  IF ncritical = 0 /\ nwarnings = 0 THEN "production-leaning"
  ELSE IF ncritical = 0 /\ nwarnings <= 3 THEN "developing"
  ELSE "basic"

\* the categorisation by severity and the returned dict
Report(fs, findings, modf, secf, cost) ==
  LET critical == SelectSeq(findings, LAMBDA f : f.severity = CRITICAL)
      warnings == SelectSeq(findings, LAMBDA f : f.severity = WARNING)
      info == SelectSeq(findings, LAMBDA f : f.severity = INFO)
  IN [analysis_type |-> "terraform-module-analysis",
      files_analyzed |-> [i \in 1..Len(fs) |-> fs[i].name],
      maturity_level |-> Maturity(Len(critical), Len(warnings)),
      module_findings |-> modf,
      security_findings |-> secf,
      cost_summary |-> [resource_costs |-> cost.resource_costs,
                        tier_summary |-> cost.tier_summary,
                        estimated_monthly_total_usd |-> cost.estimated_monthly_total_usd],
      findings |-> [i \in 1..Len(info) |-> info[i].message],
      risks |-> [i \in 1..Len(critical) + Len(warnings) |->
                   (critical \o warnings)[i].message],
      recommended_improvements |->
        Dedup([i \in 1..Len(findings) |-> findings[i].recommendation]),
      detailed_findings |-> findings,
      severity_summary |-> [critical |-> Len(critical),
                            warning |-> Len(warnings),
                            info |-> Len(info)]]

(***************************************************************************)
(* The input maps of the model                                             *)
(***************************************************************************)

\* bounds
MaxFiles == 2

MaxCalls == 2

\* the most files a sequence of calls analyses in all: a map of n files is
\* analysed at most MaxAnalysed \div n times
MaxAnalysed == 4

\* file names
Name ==
  [main |-> <<"m", "a", "i", "n", ".", "t", "f">>,
   variables |-> <<"m", "/", "v", ".", "t", "f">>,
   out |-> <<"o", ".", "t", "f">>,
   sec |-> <<"s", ".", "t", "f">>,
   net |-> <<"n", ".", "t", "f">>,
   broken |-> <<"p", ".", "t", "f">>,
   tfvars |-> <<"x", ".", "t", "f", "v", "a", "r", "s">>,
   readme |-> <<"r", ".", "m", "d">>,
   hidden |-> <<".", "h", "/", "v", ".", "t", "f">>,
   sub_main |-> <<"e", "/", "c", ".", "t", "f">>,
   sub_variables |-> <<"e", "/", "m", "/", "v", ".", "t", "f">>]

\* block labels and argument names
Id ==
  [d |-> <<"d">>,
   a |-> <<"a">>,
   b |-> <<"b">>,
   o |-> <<"o">>,
   w |-> <<"w">>,
   g |-> <<"g">>,
   auth |-> <<"a", "u", "t", "h">>,
   Token |-> <<"T", "o", "k", "e", "n">>,
   region |-> <<"r", "e", "g", "i", "o", "n">>]

\* resource types
Type ==
  [aws_i |-> <<"a", "w", "s", "_", "i">>,
   aws_eip |-> <<"a", "w", "s", "_", "e", "i", "p">>,
   aws_nat_gateway |-> <<"a", "w", "s", "_", "n", "a", "t", "_", "g", "a",
        "t", "e", "w", "a", "y">>,
   aws_db_cluster |-> <<"a", "w", "s", "_", "d", "b", "_", "c", "l", "u",
        "s", "t", "e", "r">>]

\* module sources
Src ==
  [local |-> <<".", "/", "m">>,
   absent |-> <<".", "/", "q">>,
   registry |-> <<"x", "/", "y">>,
   git |-> <<"g", "i", "t", ":", ":", "u">>,
   git_ref |-> <<"g", "i", "t", ":", ":", "u", "?", "r", "e", "f", "=", "1">>,
   github |-> <<"g", "i", "t", "h", "u", "b", ".", "c", "o", "m", "/", "x">>,
   vendored |-> <<".", "/", "g", "i", "t", "h", "u", "b", ".", "c", "o", "m",
        "/", "x">>,
   hidden |-> <<".", "/", ".", "h">>,
   parent |-> <<".", ".", "/", "m">>]

\* attribute values
Expr ==
  [one |-> <<"1">>,
   res |-> <<"$", "{", "a", "w", "s", "_", "i", ".", "w", ".", "i", "d",
        "}">>,
   mod |-> <<"$", "{", "m", "o", "d", "u", "l", "e", ".", "d", ".", "i", "d",
        "}">>,
   ghost |-> <<"$", "{", "m", "o", "d", "u", "l", "e", ".", "g", ".", "i",
        "d", "}">>,
   region |-> <<"$", "{", "v", "a", "r", ".", "r", "e", "g", "i", "o", "n",
        "}">>,
   dat |-> <<"$", "{", "d", "a", "t", "a", ".", "a", "w", "s", "_", "i", ".",
        "w", ".", "i", "d", "}">>]

\* texts of files that are not parsed
Text ==
  [broken |-> <<"{", "{">>,
   broken_refs |-> <<"v", "a", "r", ".", "p", " ", "v", "a", "r", ".", "q",
        " ", "{", "{">>,
   secret |-> <<"t", "o", "k", "e", "n", " ", "=", " ", "\"", "a", "b", "c",
        "d", "\"">>,
   key_id |-> <<"t", "o", "k", "e", "n", " ", "=", " ", "\"", "A", "K",
        "I", "A", "0", "1", "2", "3", "4", "5", "6", "7", "8", "9", "A",
        "B", "C", "D", "E", "F", "\"">>,
   readme |-> <<"s", "e", "e", " ", "v", "a", "r", ".", "q">>]


\* a labelled block: kind "name" { attrs }
Block(name, attrs) == VMap(<<KV(name, VMap(attrs))>>)

\* resource "type" "name" {}
ResourceBlock(type, name) == VMap(<<KV(type, VMap(<<KV(name, VMap(<<>>))>>))>>)

\* a tree with the blocks of one kind
Tree1(kind, blocks) == VMap(<<KV(kind, VList(blocks))>>)

\* a tree with the blocks of two kinds
Tree2(kind1, blocks1, kind2, blocks2) ==
  VMap(<<KV(kind1, VList(blocks1)), KV(kind2, VList(blocks2))>>)

Arg(name) == KV(name, VStr(Expr.one))

\* the attributes of the module call "d" of main.tf
ModuleCallAttrs ==
  { \* no source, or an empty one, with and without other attributes
    <<>>,
    <<KV(Key.version, VStr(Expr.one)), Arg(Id.a)>>,
    <<KV(Key.source, VList(<<VStr(<<>>)>>))>>,
    \* a source or version that is not a str
    <<KV(Key.source, VNum(<<"5">>))>>,
    <<KV(Key.source, VFalse)>>,
    <<KV(Key.source, VStr(Src.registry)), KV(Key.version, VNum(<<"5">>))>>,
    \* local modules
    <<KV(Key.source, VStr(Src.local))>>,
    <<KV(Key.source, VStr(Src.local)), Arg(Id.a)>>,
    <<KV(Key.source, VList(<<VStr(Src.local)>>)), Arg(Id.a), Arg(Id.b)>>,
    <<KV(Key.source, VStr(Src.absent))>>,
    \* registry and git modules
    <<KV(Key.source, VStr(Src.registry))>>,
    <<KV(Key.source, VStr(Src.registry)), KV(Key.version, VStr(Expr.one))>>,
    <<KV(Key.source, VStr(Src.git))>>,
    <<KV(Key.source, VStr(Src.git)), KV(Key.version, VStr(Expr.one))>>,
    <<KV(Key.source, VStr(Src.git_ref))>>,
    <<KV(Key.source, VStr(Src.github))>>,
    \* a local copy kept under the name of its host
    <<KV(Key.source, VStr(Src.vendored))>>,
    \* a local module in a directory whose name begins with a dot
    <<KV(Key.source, VStr(Src.hidden))>>,
    \* a local module named from the parent directory
    <<KV(Key.source, VStr(Src.parent))>> }

MainTrees ==
  {Tree1(Key.module, <<Block(Id.d, attrs)>>) : attrs \in ModuleCallAttrs}
  \cup
  { \* a top-level attribute `module = 5`, a module whose body is not a
    \* mapping, and a module block
    Tree1(Key.module, <<VNum(<<"5">>), VMap(<<KV(Id.g, VNum(<<"5">>))>>), Block(Id.d, <<>>)>>) }

\* the variable declarations of the module directory m
ModuleVarTrees ==
  { Tree1(Key.variable, <<Block(Id.a, <<>>)>>),
    Tree1(Key.variable, <<Block(Id.b, <<>>), Block(Id.a, <<>>)>>),
    Tree1(Key.variable, <<Block(Id.a, <<>>), Block(Id.b, <<KV(Key.default, VStr(Expr.one))>>)>>) }

OutputTrees ==
  { Tree1(Key.output, <<Block(Id.o, <<KV(Key.value, VStr(Expr.res))>>)>>),
    Tree2(Key.resource, <<ResourceBlock(Type.aws_i, Id.w)>>,
          Key.output, <<Block(Id.o, <<KV(Key.value, VStr(Expr.res))>>)>>),
    Tree1(Key.output, <<Block(Id.o, <<KV(Key.value, VStr(Expr.mod))>>)>>),
    \* an output that refers to a data source declared next to it
    Tree2(Key.data, <<ResourceBlock(Type.aws_i, Id.w)>>,
          Key.output, <<Block(Id.o, <<KV(Key.value, VStr(Expr.dat))>>)>>),
    Tree1(Key.output, <<Block(Id.o, <<KV(Key.value, VList(<<VStr(Expr.ghost)>>))>>),
                      Block(Id.w, <<KV(Key.value, VStr(Expr.res \o Expr.res))>>)>>) }

SensitiveVarTrees ==
  { Tree1(Key.variable, <<Block(Id.auth, <<>>)>>),
    Tree2(Key.variable, <<Block(Id.auth, <<>>)>>,
          Key.resource, <<ResourceBlock(Type.aws_nat_gateway, Id.g)>>),
    Tree1(Key.variable, <<Block(Id.auth, <<KV(Key.sensitive, VTrue)>>)>>),
    Tree1(Key.variable, <<Block(Id.auth, <<KV(Key.sensitive, VList(<<VFalse>>))>>)>>),
    Tree1(Key.variable, <<Block(Id.auth, <<KV(Key.default,
                                               VList(<<VStr(<<>>), VStr(Expr.one)>>))>>)>>),
    Tree1(Key.variable, <<Block(Id.auth, <<KV(Key.default, VStr(Expr.one))>>)>>),
    Tree2(Key.variable, <<Block(Id.Token, <<>>),
                        Block(Id.region, <<KV(Key.default, VList(<<VStr(Expr.one)>>))>>)>>,
          Key.provider, <<Block(Id.a, <<KV(Id.region, VStr(Expr.region))>>)>>) }

ResourceTrees ==
  { Tree1(Key.resource, <<ResourceBlock(Type.aws_nat_gateway, Id.g)>>),
    Tree1(Key.resource, <<ResourceBlock(Type.aws_db_cluster, Id.g),
                        ResourceBlock(Type.aws_i, Id.w)>>),
    Tree1(Key.resource, <<ResourceBlock(Type.aws_nat_gateway, Id.g),
                        ResourceBlock(Type.aws_eip, Id.w),
                        ResourceBlock(Type.aws_i, Id.w)>>) }

\* the files an input map is made of
FilePool ==
  {TfFile(Name.main, t) : t \in MainTrees}
  \cup {TfFile(Name.variables, t) : t \in ModuleVarTrees}
  \cup {TfFile(Name.hidden, Tree1(Key.variable, <<Block(Id.a, <<>>)>>))}
  \cup {TfFile(Name.sub_main,
                Tree1(Key.module, <<Block(Id.d, <<KV(Key.source, VStr(Src.local))>>)>>))}
  \cup {TfFile(Name.sub_variables, Tree1(Key.variable, <<Block(Id.a, <<>>)>>))}
  \cup {TfFile(Name.out, t) : t \in OutputTrees}
  \cup {TfFile(Name.sec, t) : t \in SensitiveVarTrees}
  \cup {TfFile(Name.net, t) : t \in ResourceTrees}
  \cup {TfFile(Name.net, VMap(<<>>))}
  \cup {TextFile(Name.broken, x) : x \in {Text.broken, Text.broken_refs, Text.secret}}
  \cup {TextFile(Name.tfvars, x) : x \in {Text.secret, Text.key_id}}
  \cup {TextFile(Name.readme, Text.readme)}

\* the input maps: at most MaxFiles files with distinct names; a map lists its
\* files in the order of their names
FileMaps ==
  UNION {{fs \in [1..n -> FilePool] :
            \A i, j \in 1..n : i < j => StrLess(fs[i].name, fs[j].name)} : n \in 0..MaxFiles}

\* the file map fs with `sensitive = true` added to the variable blocks
\* named v of its i-th file
WithSensitive(fs, i, v) ==
  LET OfConfig(c) ==
        IF IsDict(c) /\ ~HasKey(c, Key.sensitive)
        THEN VMap(c.items \o <<KV(Key.sensitive, VTrue)>>)
        ELSE c
      OfBlock(b) ==
        IF ~IsDict(b) THEN b
        ELSE VMap([k \in 1..Len(b.items) |->
                     IF b.items[k].k = v THEN KV(v, OfConfig(b.items[k].v))
                     ELSE b.items[k]])
      OfKind(e) ==
        IF e.k = Key.variable /\ IsList(e.v)
        THEN KV(e.k, VList([k \in 1..Len(e.v.items) |-> OfBlock(e.v.items[k])]))
        ELSE e
      tree == VMap([k \in 1..Len(fs[i].hcl.tree.items) |-> OfKind(fs[i].hcl.tree.items[k])])
  IN [fs EXCEPT ![i] = TfFile(fs[i].name, tree)]

\* the variables of the i-th file that can take the flag
Flaggable(fs, i) ==
  LET e == BlockConfigs(<<[name |-> fs[i].name, parsed |-> fs[i].hcl.tree]>>, Key.variable)
  IN {e[k].name : k \in {k \in 1..Len(e) : IsDict(e[k].config) /\ ~HasKey(e[k].config, Key.sensitive)}}

(***************************************************************************)
(* The tool: calls of analyze_terraform_modules, one after the other       *)
(***************************************************************************)

VARIABLES
  files,             \* the argument of the current call
  pc,                \* the position of the current call
  parsed_files,      \* locals of analyze_terraform_modules
  all_findings,
  module_findings,
  security_findings,
  cost_summary,
  result,            \* the returned dict, once the call returned
  calls,             \* the outcomes of the completed calls
  flagged            \* the (file, variable) given `sensitive = true` for the
                     \* current call, <<>> when the file map is the previous one

(***************************************************************************)
(* The state of the other tools of the server (main.py), which the calls   *)
(* of analyze_terraform_modules leave alone                                *)
(***************************************************************************)

VARIABLES
  db,                \* the row of table user_profile of mentor_memory.db
  tpc,               \* the position of each update_skills call in flight
  arg,               \* its arguments (feedback, maturity)
  profile,           \* its local `profile`
  log,               \* the update_skills calls that have returned, in order
  CURRENT_MODE,      \* the global of main.py
  reply,             \* what the last set_review_mode call returned
  requests           \* the arguments of the set_review_mode calls so far

tracker_vars == <<db, tpc, arg, profile, log>>

mode_vars == <<CURRENT_MODE, reply, requests>>

\* the processes that serve tool calls on the same database file
Procs == {1, 2}

\* with them client 0, which makes its calls one after the other
Clients == {0} \cup Procs

\* no row with id 1 in user_profile
NoRow == [user_level |-> "", skills |-> <<>>, row |-> FALSE]

\* no call in flight: no arguments, no local profile
NoArg == [feedback |-> <<>>, maturity |-> ""]

\* store.py line 23: init_db() creates the empty table; nothing is in flight
TrackerInit ==
  /\ db = NoRow
  /\ tpc = [p \in Clients |-> "idle"]
  /\ arg = [p \in Clients |-> NoArg]
  /\ profile = [p \in Clients |-> NoRow]
  /\ log = <<>>

\* main.py line 22: CURRENT_MODE = "mentor"
ModeInit ==
  /\ CURRENT_MODE = "mentor"
  /\ reply = <<>>
  /\ requests = <<>>

vars == <<files, pc, parsed_files, all_findings, module_findings,
          security_findings, cost_summary, result, calls, flagged>>

NoCost == [resource_costs |-> <<>>, cost_findings |-> <<>>]

NoResult == [analysis_type |-> "none"]

Init ==
  /\ files \in FileMaps
  /\ pc = "parse"
  /\ parsed_files = <<>>
  /\ all_findings = <<>>
  /\ module_findings = <<>>
  /\ security_findings = <<>>
  /\ cost_summary = NoCost
  /\ result = NoResult
  /\ calls = <<>>
  /\ flagged = <<>>
  /\ TrackerInit
  /\ ModeInit

\* lines 686-706: filter the .tf files and parse them
Parse ==
  /\ pc = "parse"
  /\ parsed_files' = ParsedFiles(files)
  /\ all_findings' = ParseFindings(files)
  /\ pc' = "module_checks"
  /\ UNCHANGED <<files, module_findings, security_findings,
                 cost_summary, result, calls, flagged, tracker_vars, mode_vars>>

\* lines 708-714: the module structure checks
ModuleChecks ==
  /\ pc = "module_checks"
  /\ IF \/ _check_module_sources_raises(parsed_files)
        \/ _check_module_required_variables_raises(parsed_files)
     THEN /\ pc' = "raised"
          /\ UNCHANGED <<module_findings, all_findings>>
     ELSE LET sources == _check_module_sources(parsed_files, all_tf_paths(files))
              required == _check_module_required_variables(parsed_files)
              outputs == _check_output_references(parsed_files)
          IN \E used_order \in Orders(used_var_names(files)) :
               /\ module_findings' =
                    sources \o required
                    \o _check_variable_usage(parsed_files, files, used_order)
                    \o outputs
               /\ all_findings' = all_findings \o module_findings'
               /\ pc' = "security_checks"
  /\ UNCHANGED <<files, parsed_files, security_findings,
                 cost_summary, result, calls, flagged, tracker_vars, mode_vars>>

\* lines 716-722: the security checks
SecurityChecks ==
  /\ pc = "security_checks"
  /\ IF _check_untrusted_module_sources_raises(parsed_files)
     THEN /\ pc' = "raised"
          /\ UNCHANGED <<security_findings, all_findings>>
     ELSE /\ security_findings' =
                 _check_sensitive_variables(parsed_files)
                 \o _check_sensitive_outputs(parsed_files)
                 \o _check_tfvars_secrets(files)
                 \o _check_untrusted_module_sources(parsed_files)
          /\ all_findings' = all_findings \o security_findings'
          /\ pc' = "cost_summary"
  /\ UNCHANGED <<files, parsed_files, module_findings,
                 cost_summary, result, calls, flagged, tracker_vars, mode_vars>>

\* the cost summary step without the extension of all_findings
CostSummary_m ==
  /\ pc = "cost_summary"
  /\ cost_summary' = _generate_cost_summary(parsed_files)
  /\ pc' = "aggregate"
  /\ UNCHANGED <<files, parsed_files, all_findings, module_findings,
                 security_findings, result, calls, flagged, tracker_vars, mode_vars>>

\* lines 724-726: the cost summary
CostSummary ==
  /\ pc = "cost_summary"
  /\ cost_summary' = _generate_cost_summary(parsed_files)
  /\ all_findings' = all_findings \o cost_summary'.cost_findings
  /\ pc' = "aggregate"
  /\ UNCHANGED <<files, parsed_files, module_findings,
                 security_findings, result, calls, flagged, tracker_vars, mode_vars>>

\* the last step with risks listed in the order of all_findings
Aggregate_m ==
  /\ pc = "aggregate"
  /\ result' = [Report(files, all_findings, module_findings, security_findings,
                       cost_summary)
                  EXCEPT !.risks =
                    LET risky == SelectSeq(all_findings,
                                           LAMBDA f : f.severity \in {CRITICAL, WARNING})
                    IN [i \in 1..Len(risky) |-> risky[i].message]]
  /\ pc' = "done"
  /\ UNCHANGED <<files, parsed_files, all_findings, module_findings,
                 security_findings, cost_summary, calls, flagged, tracker_vars, mode_vars>>

\* lines 728-763: categorise and return
Aggregate ==
  /\ pc = "aggregate"
  /\ result' = Report(files, all_findings, module_findings, security_findings, cost_summary)
  /\ pc' = "done"
  /\ UNCHANGED <<files, parsed_files, all_findings, module_findings,
                 security_findings, cost_summary, calls, flagged, tracker_vars, mode_vars>>

\* the call is over (returned or raised): the tool records it and is ready
\* for the next one; the locals of the call are gone
Return ==
  /\ pc \in {"done", "raised"}
  /\ calls' = Append(calls, [raised |-> pc = "raised", result |-> result, flagged |-> flagged])
  /\ pc' = "idle"
  /\ parsed_files' = <<>>
  /\ all_findings' = <<>>
  /\ module_findings' = <<>>
  /\ security_findings' = <<>>
  /\ cost_summary' = NoCost
  /\ result' = NoResult
  /\ UNCHANGED <<files, flagged, tracker_vars, mode_vars>>

\* the next call: on the same file map ...
InvokeAgain ==
  /\ pc = "idle"
  /\ Len(calls) < MaxCalls
  /\ Len(files) * (Len(calls) + 1) <= MaxAnalysed
  /\ pc' = "parse"
  /\ flagged' = <<>>
  /\ UNCHANGED <<files, parsed_files, all_findings, module_findings,
                 security_findings, cost_summary, result, calls, tracker_vars, mode_vars>>

\* ... or on the file map with `sensitive = true` added to one variable
InvokeWithSensitive ==
  /\ pc = "idle"
  /\ Len(calls) < MaxCalls
  /\ Len(files) * (Len(calls) + 1) <= MaxAnalysed
  /\ \E i \in 1..Len(files) : \E v \in Flaggable(files, i) :
        /\ files' = WithSensitive(files, i, v)
        /\ flagged' = <<files[i].name, v>>
  /\ pc' = "parse"
  /\ UNCHANGED <<parsed_files, all_findings, module_findings,
                 security_findings, cost_summary, result, calls, tracker_vars, mode_vars>>

Next ==
  \/ Parse
  \/ ModuleChecks
  \/ SecurityChecks
  \/ CostSummary
  \/ Aggregate
  \/ Return
  \/ InvokeAgain
  \/ InvokeWithSensitive

Spec == Init /\ [][Next]_<<vars, tracker_vars, mode_vars>>

(***************************************************************************)
(* memory/models.py, memory/store.py, memory/tracker.py: the skill         *)
(* profile.  Scores are floats that are multiples of 1/8 in the code (a    *)
(* weight is a multiple of 1/2, a multiplier of 1/4); the model counts in  *)
(* eighths: weights are doubled, multipliers quadrupled, and scores and    *)
(* thresholds are eight times the ones of the code.                        *)
(***************************************************************************)

SKILL_LEVELS == <<"unknown", "beginner", "developing", "solid", "advanced">>

\* SKILL_LEVELS.index(level), counted from 0 as in the code
LevelIndex(level) ==
  (CHOOSE i \in 1..Len(SKILL_LEVELS) : SKILL_LEVELS[i] = level) - 1

\* SkillState()
NewSkillState ==
  [level |-> "unknown", evidence_count |-> 0, last_feedback |-> <<>>,
   weighted_score |-> 0, history |-> <<>>]

\* UserProfile(): skills maps the names of the tracked skills to their states
NewProfile == [user_level |-> "junior", skills |-> [k \in {} |-> NewSkillState], row |-> TRUE]

\* load_profile(): the default profile when there is no row, else the
\* profile rebuilt from the JSON text of the row (every field of every
\* skill is in the text save_profile wrote, so setdefault adds nothing)
load_profile(row) ==
  IF ~row.row THEN NewProfile
  ELSE [user_level |-> row.user_level,
        skills |-> [k \in DOMAIN row.skills |->
                      [level |-> row.skills[k].level,
                       evidence_count |-> row.skills[k].evidence_count,
                       last_feedback |-> row.skills[k].last_feedback,
                       weighted_score |-> row.skills[k].weighted_score,
                       history |-> row.skills[k].history]],
        row |-> TRUE]

\* the row save_profile(profile) writes: REPLACE INTO user_profile (id 1)
save_profile(prof) ==
  [user_level |-> prof.user_level,
   skills |-> [k \in DOMAIN prof.skills |-> prof.skills[k]],
   row |-> TRUE]

WEIGHTED_SKILL_MAP ==
  << [skill |-> "ci_cd", keywords_weights |-> <<
        [keyword |-> <<"g", "i", "t", "h", "u", "b", " ", "a", "c", "t", "i",
            "o", "n", "s">>, weight |-> 4],
        [keyword |-> <<"w", "o", "r", "k", "f", "l", "o", "w">>,
            weight |-> 3],
        [keyword |-> <<"p", "i", "p", "e", "l", "i", "n", "e">>,
            weight |-> 3],
        [keyword |-> <<"c", "i">>, weight |-> 2],
        [keyword |-> <<"d", "e", "p", "l", "o", "y">>, weight |-> 2],
        [keyword |-> <<"a", "r", "t", "i", "f", "a", "c", "t">>,
            weight |-> 3],
        [keyword |-> <<"m", "a", "t", "r", "i", "x", " ", "s", "t", "r", "a",
            "t", "e", "g", "y">>, weight |-> 4],
        [keyword |-> <<"c", "o", "n", "c", "u", "r", "r", "e", "n", "c",
            "y">>, weight |-> 3]
      >>],
     [skill |-> "docker", keywords_weights |-> <<
        [keyword |-> <<"d", "o", "c", "k", "e", "r", "f", "i", "l", "e">>,
            weight |-> 4],
        [keyword |-> <<"d", "o", "c", "k", "e", "r", "-", "c", "o", "m", "p",
            "o", "s", "e">>, weight |-> 4],
        [keyword |-> <<"c", "o", "n", "t", "a", "i", "n", "e", "r">>,
            weight |-> 2],
        [keyword |-> <<"m", "u", "l", "t", "i", "-", "s", "t", "a", "g",
            "e">>, weight |-> 4],
        [keyword |-> <<"d", "o", "c", "k", "e", "r">>, weight |-> 2]
      >>],
     [skill |-> "terraform", keywords_weights |-> <<
        [keyword |-> <<"t", "e", "r", "r", "a", "f", "o", "r", "m">>,
            weight |-> 4],
        [keyword |-> <<"h", "c", "l">>, weight |-> 4],
        [keyword |-> <<"t", "f", "s", "t", "a", "t", "e">>, weight |-> 4],
        [keyword |-> <<"t", "f", "v", "a", "r", "s">>, weight |-> 3],
        [keyword |-> <<"p", "r", "o", "v", "i", "d", "e", "r">>,
            weight |-> 3],
        [keyword |-> <<"m", "o", "d", "u", "l", "e">>, weight |-> 3],
        [keyword |-> <<"r", "e", "m", "o", "t", "e", " ", "b", "a", "c", "k",
            "e", "n", "d">>, weight |-> 4],
        [keyword |-> <<"s", "t", "a", "t", "e", " ", "l", "o", "c", "k", "i",
            "n", "g">>, weight |-> 4]
      >>],
     [skill |-> "aws", keywords_weights |-> <<
        [keyword |-> <<"i", "a", "m">>, weight |-> 4],
        [keyword |-> <<"s", "3">>, weight |-> 3],
        [keyword |-> <<"e", "c", "2">>, weight |-> 3],
        [keyword |-> <<"l", "a", "m", "b", "d", "a">>, weight |-> 3],
        [keyword |-> <<"e", "c", "s">>, weight |-> 3],
        [keyword |-> <<"e", "k", "s">>, weight |-> 4],
        [keyword |-> <<"r", "d", "s">>, weight |-> 3],
        [keyword |-> <<"c", "l", "o", "u", "d", "f", "r", "o", "n", "t">>,
            weight |-> 3],
        [keyword |-> <<"v", "p", "c">>, weight |-> 3],
        [keyword |-> <<"s", "e", "c", "u", "r", "i", "t", "y", " ", "g", "r",
            "o", "u", "p">>, weight |-> 4],
        [keyword |-> <<"a", "u", "t", "o", "-", "s", "c", "a", "l", "i", "n",
            "g">>, weight |-> 4],
        [keyword |-> <<"a", "w", "s">>, weight |-> 2]
      >>],
     [skill |-> "security", keywords_weights |-> <<
        [keyword |-> <<"s", "e", "c", "r", "e", "t", "s">>, weight |-> 4],
        [keyword |-> <<"i", "a", "m">>, weight |-> 3],
        [keyword |-> <<"o", "i", "d", "c">>, weight |-> 4],
        [keyword |-> <<"r", "b", "a", "c">>, weight |-> 4],
        [keyword |-> <<"l", "e", "a", "s", "t", "-", "p", "r", "i", "v", "i",
            "l", "e", "g", "e">>, weight |-> 4],
        [keyword |-> <<"p", "e", "r", "m", "i", "s", "s", "i", "o", "n",
            "s">>, weight |-> 2],
        [keyword |-> <<"e", "n", "c", "r", "y", "p", "t", "i", "o", "n">>,
            weight |-> 4],
        [keyword |-> <<"h", "a", "r", "d", "c", "o", "d", "e", "d", " ", "c",
            "r", "e", "d", "e", "n", "t", "i", "a", "l">>, weight |-> 4]
      >>],
     [skill |-> "observability", keywords_weights |-> <<
        [keyword |-> <<"p", "r", "o", "m", "e", "t", "h", "e", "u", "s">>,
            weight |-> 4],
        [keyword |-> <<"g", "r", "a", "f", "a", "n", "a">>, weight |-> 4],
        [keyword |-> <<"d", "a", "t", "a", "d", "o", "g">>, weight |-> 4],
        [keyword |-> <<"c", "l", "o", "u", "d", "w", "a", "t", "c", "h">>,
            weight |-> 4],
        [keyword |-> <<"l", "o", "g", "g", "i", "n", "g">>, weight |-> 2],
        [keyword |-> <<"m", "o", "n", "i", "t", "o", "r", "i", "n", "g">>,
            weight |-> 2],
        [keyword |-> <<"a", "l", "e", "r", "t", "i", "n", "g">>,
            weight |-> 3],
        [keyword |-> <<"t", "r", "a", "c", "i", "n", "g">>, weight |-> 4]
      >>],
     [skill |-> "testing", keywords_weights |-> <<
        [keyword |-> <<"p", "y", "t", "e", "s", "t">>, weight |-> 4],
        [keyword |-> <<"j", "e", "s", "t">>, weight |-> 4],
        [keyword |-> <<"u", "n", "i", "t", "t", "e", "s", "t">>,
            weight |-> 3],
        [keyword |-> <<"c", "o", "v", "e", "r", "a", "g", "e">>,
            weight |-> 3],
        [keyword |-> <<"i", "n", "t", "e", "g", "r", "a", "t", "i", "o", "n",
            " ", "t", "e", "s", "t">>, weight |-> 4],
        [keyword |-> <<"e", "2", "e">>, weight |-> 4],
        [keyword |-> <<"t", "e", "s", "t">>, weight |-> 2]
      >>] >>

\* LEVEL_THRESHOLDS, in the order of the dict
LEVEL_THRESHOLDS ==
  << [name |-> "beginner", threshold |-> 16],
     [name |-> "developing", threshold |-> 48],
     [name |-> "solid", threshold |-> 120],
     [name |-> "advanced", threshold |-> 240] >>

MAX_HISTORY == 5

\* compute_level: the last level of LEVEL_THRESHOLDS whose threshold the
\* score reaches
compute_level(weighted_score) ==
  LET reached == {i \in 1..Len(LEVEL_THRESHOLDS) :
                    weighted_score >= LEVEL_THRESHOLDS[i].threshold}
  IN IF reached = {} THEN "unknown"
     ELSE LEVEL_THRESHOLDS[CHOOSE i \in reached : \A j \in reached : j <= i].name

\* {...}.get(maturity, 0.75)
maturity_multiplier(maturity) ==
  CASE maturity = "early" -> 2
    [] maturity = "basic" -> 3
    [] maturity = "developing" -> 4
    [] maturity = "production-leaning" -> 6
    [] OTHER -> 3

\* the sum of the weights of the keywords found in lower_feedback
RECURSIVE matched_score(_, _)
matched_score(keywords_weights, lower_feedback) ==
  IF keywords_weights = <<>> THEN 0
  ELSE (IF Contains(lower_feedback, Head(keywords_weights).keyword)
        THEN Head(keywords_weights).weight ELSE 0)
       + matched_score(Tail(keywords_weights), lower_feedback)

Xs(n) == [i \in 1..n |-> "x"]

\* an upper-case keyword; a text longer than last_feedback keeps, with two
\* keywords; a text that matches no keyword
Feedback ==
  [docker |-> <<"D", "o", "c", "k", "e", "r">>,
   long |-> <<"d", "o", "c", "k", "e", "r", " ", "t", "e", "r", "r", "a",
              "f", "o", "r", "m", " ">> \o Xs(190),
   none |-> <<"o", "k">>]

UpdateCalls ==
  { [feedback |-> Feedback.docker, maturity |-> "unknown"],
    [feedback |-> Feedback.long, maturity |-> "production-leaning"],
    [feedback |-> Feedback.none, maturity |-> "basic"] }

\* matched_score of every skill of WEIGHTED_SKILL_MAP for feedback.lower(),
\* worked out once for each text of UpdateCalls
FeedbackScores ==
  [f \in {a.feedback : a \in UpdateCalls} |->
     [i \in 1..Len(WEIGHTED_SKILL_MAP) |->
        matched_score(WEIGHTED_SKILL_MAP[i].keywords_weights, Lower(f))]]

\* s[:n]
Prefix(s, n) == IF Len(s) <= n THEN s ELSE SubSeq(s, 1, n)

\* s[-n:]
Suffix(s, n) == IF Len(s) <= n THEN s ELSE SubSeq(s, Len(s) - n + 1, Len(s))

\* lines 115-119 with a history that keeps its first MAX_HISTORY entries
UpdatedState_m(state, feedback, matched, multiplier) ==
  LET score == state.weighted_score + matched * multiplier
  IN [level |-> compute_level(score),
      evidence_count |-> state.evidence_count + 1,
      last_feedback |-> Prefix(feedback, 200),
      weighted_score |-> score,
      history |-> Prefix(state.history \o <<Prefix(feedback, 100)>>, MAX_HISTORY)]

\* lines 115-119: the state of a skill the feedback matched
UpdatedState(state, feedback, matched, multiplier) ==
  LET score == state.weighted_score + matched * multiplier
  IN [level |-> compute_level(score),
      evidence_count |-> state.evidence_count + 1,
      last_feedback |-> Prefix(feedback, 200),
      weighted_score |-> score,
      history |-> Suffix(state.history \o <<Prefix(feedback, 100)>>, MAX_HISTORY)]

\* lines 106-120: profile.skills after the loop over WEIGHTED_SKILL_MAP
UpdatedSkills(skills, feedback, maturity) ==
  LET score == FeedbackScores[feedback]
      matched == {WEIGHTED_SKILL_MAP[i].skill :
                    i \in {j \in 1..Len(WEIGHTED_SKILL_MAP) : score[j] > 0}}
      ScoreOf(k) == score[CHOOSE i \in 1..Len(WEIGHTED_SKILL_MAP) :
                            WEIGHTED_SKILL_MAP[i].skill = k]
  IN [k \in DOMAIN skills \cup matched |->
        IF k \in matched
        THEN UpdatedState(IF k \in DOMAIN skills THEN skills[k] ELSE NewSkillState,
                          feedback, ScoreOf(k), maturity_multiplier(maturity))
        ELSE skills[k]]

\* sum(levels_index) for the skills of the set ks
RECURSIVE SumLevels(_, _)
SumLevels(skills, ks) ==
  IF ks = {} THEN 0
  ELSE LET k == CHOOSE x \in ks : TRUE
       IN LevelIndex(skills[k].level) + SumLevels(skills, ks \ {k})

\* lines 122-129: user_level after the update
UpdatedUserLevel(user_level, skills) ==
  LET known == {k \in DOMAIN skills : skills[k].level # "unknown"}
      avg == SumLevels(skills, known) \div Cardinality(known)
  IN IF known = {} THEN user_level
     ELSE SKILL_LEVELS[(IF avg < Len(SKILL_LEVELS) - 1 THEN avg
                        ELSE Len(SKILL_LEVELS) - 1) + 1]

\* enhancer/skill_adapter.py
DOMAIN_TO_SKILL ==
  << [domain |-> "ci_cd", skill |-> "ci_cd"],
     [domain |-> "docker", skill |-> "docker"],
     [domain |-> "terraform", skill |-> "terraform"],
     [domain |-> "aws", skill |-> "aws"],
     [domain |-> "security", skill |-> "security"],
     [domain |-> "observability", skill |-> "observability"],
     [domain |-> "networking", skill |-> "aws"],
     [domain |-> "cost", skill |-> "aws"] >>

USER_LEVEL_MAP ==
  << [user_level |-> "junior", level |-> "beginner"],
     [user_level |-> "mid", level |-> "developing"],
     [user_level |-> "senior", level |-> "solid"] >>

\* effective_level of get_skill_adaptation(detected_domains) on the profile
\* load_profile() returns
effective_level(prof, detected_domains) ==
  LET SkillOf(d) == {DOMAIN_TO_SKILL[i].skill :
                       i \in {j \in 1..Len(DOMAIN_TO_SKILL) : DOMAIN_TO_SKILL[j].domain = d}}
      relevant_levels ==
        {LevelIndex(prof.skills[k].level) :
           k \in {x \in UNION {SkillOf(d) : d \in detected_domains} : x \in DOMAIN prof.skills}}
      mapped == {i \in 1..Len(USER_LEVEL_MAP) : USER_LEVEL_MAP[i].user_level = prof.user_level}
  IN IF relevant_levels = {}
     THEN (IF mapped = {} THEN "unknown" ELSE USER_LEVEL_MAP[CHOOSE i \in mapped : TRUE].level)
     ELSE SKILL_LEVELS[(CHOOSE m \in relevant_levels : \A n \in relevant_levels : m <= n) + 1]

(***************************************************************************)
(* update_skills(feedback, maturity) as three steps of the calling        *)
(* process: load_profile() (line 96), the work on the local profile       *)
(* (lines 97-129) and save_profile(profile) (line 131).  Nothing in the    *)
(* code holds a lock or a transaction from the first to the last.          *)
(***************************************************************************)

MaxUpdates == 6

MaxOverlapping == 1

\* the calls a client makes: up to MaxUpdates in a row, up to MaxOverlapping
\* by each of the processes that run side by side
Quota == [p \in Clients |-> IF p \notin Procs THEN MaxUpdates ELSE MaxOverlapping]

CallsBy(p) == Cardinality({i \in 1..Len(log) : log[i].proc = p})

\* the analyzer and the review mode at rest
AnalyzerIdle ==
  /\ files = <<>>
  /\ pc = "idle"
  /\ parsed_files = <<>>
  /\ all_findings = <<>>
  /\ module_findings = <<>>
  /\ security_findings = <<>>
  /\ cost_summary = NoCost
  /\ result = NoResult
  /\ calls = <<>>
  /\ flagged = <<>>

\* line 96: profile = load_profile()
LoadProfile(p) ==
  /\ tpc[p] = "idle"
  /\ CallsBy(p) < Quota[p]
  /\ \E a \in UpdateCalls :
       /\ arg' = [arg EXCEPT ![p] = a]
       /\ profile' = [profile EXCEPT ![p] = load_profile(db)]
  /\ tpc' = [tpc EXCEPT ![p] = "loaded"]
  /\ UNCHANGED <<db, log, vars, mode_vars>>

\* lines 97-129: the skills the feedback matches, then user_level
UpdateSkills(p) ==
  /\ tpc[p] = "loaded"
  /\ LET skills == UpdatedSkills(profile[p].skills, arg[p].feedback, arg[p].maturity)
     IN profile' = [profile EXCEPT ![p] =
                      [user_level |-> UpdatedUserLevel(profile[p].user_level, skills),
                       skills |-> skills,
                       row |-> TRUE]]
  /\ tpc' = [tpc EXCEPT ![p] = "updated"]
  /\ UNCHANGED <<db, arg, log, vars, mode_vars>>

\* line 131: save_profile(profile), and the call returns
SaveProfile(p) ==
  /\ tpc[p] = "updated"
  /\ db' = save_profile(profile[p])
  /\ log' = Append(log, [proc |-> p, feedback |-> arg[p].feedback,
                         maturity |-> arg[p].maturity])
  /\ tpc' = [tpc EXCEPT ![p] = "idle"]
  /\ arg' = [arg EXCEPT ![p] = NoArg]
  /\ profile' = [profile EXCEPT ![p] = NoRow]
  /\ UNCHANGED <<vars, mode_vars>>

\* the server after start-up: no tool call made yet
ServerInit == AnalyzerIdle /\ TrackerInit /\ ModeInit

\* one client: the calls follow one another
TrackerNext ==
  \/ LoadProfile(0)
  \/ UpdateSkills(0)
  \/ SaveProfile(0)

TrackerSpec == ServerInit /\ [][TrackerNext]_<<vars, tracker_vars, mode_vars>>

\* two server processes on the same mentor_memory.db: the steps interleave
RaceNext ==
  \E p \in Procs :
    \/ LoadProfile(p)
    \/ UpdateSkills(p)
    \/ SaveProfile(p)

RaceSpec == ServerInit /\ [][RaceNext]_<<vars, tracker_vars, mode_vars>>

(***************************************************************************)
(* main.py: set_review_mode(mode)                                          *)
(***************************************************************************)

MaxModeCalls == 3

ValidModes == <<"mentor", "review", "debug", "interview">>

\* the strings a client passes: the four modes and three others
ModeArgs == {"mentor", "review", "debug", "interview", "Mentor", "", "mentor "}

\* lines 33-39 with the assignment ahead of the test
set_review_mode_m ==
  /\ Len(requests) < MaxModeCalls
  /\ \E mode \in ModeArgs :
       /\ requests' = Append(requests, mode)
       /\ CURRENT_MODE' = mode
       /\ IF ~(\E i \in 1..Len(ValidModes) : ValidModes[i] = mode)
          THEN reply' = <<"Invalid mode. Choose from: mentor, review, debug, interview">>
          ELSE reply' = <<"Review mode set to '", mode, "'">>
  /\ UNCHANGED <<vars, tracker_vars>>

\* lines 33-39; the reply is the pieces of the returned string
set_review_mode ==
  /\ Len(requests) < MaxModeCalls
  /\ \E mode \in ModeArgs :
       /\ requests' = Append(requests, mode)
       /\ IF ~(\E i \in 1..Len(ValidModes) : ValidModes[i] = mode)
          THEN /\ reply' = <<"Invalid mode. Choose from: mentor, review, debug, interview">>
               /\ UNCHANGED CURRENT_MODE
          ELSE /\ CURRENT_MODE' = mode
               /\ reply' = <<"Review mode set to '", mode, "'">>
  /\ UNCHANGED <<vars, tracker_vars>>

ModeNext == set_review_mode

ModeSpec == ServerInit /\ [][ModeNext]_<<vars, tracker_vars, mode_vars>>

(***************************************************************************)
(* Properties                                                              *)
(***************************************************************************)

\* number of elements of seq that satisfy P
Count(seq, P(_)) == Len(SelectSeq(seq, P))

\* the findings of kind `kind` about (file, a)
About(seq, kind, file, a) ==
  SelectSeq(seq, LAMBDA f : f.message.kind = kind /\ f.message.file = file
                            /\ f.message.a = a)

\* do two sequences hold the same elements the same number of times?
SameBag(xs, ys) ==
  /\ Len(xs) = Len(ys)
  /\ \A i \in 1..Len(xs) :
        Count(xs, LAMBDA x : x = xs[i]) = Count(ys, LAMBDA y : y = xs[i])

\* the counts of the report of the call that just returned
NCritical == Count(result.detailed_findings, LAMBDA f : f.severity = CRITICAL)

NWarning == Count(result.detailed_findings, LAMBDA f : f.severity = WARNING)

NInfo == Count(result.detailed_findings, LAMBDA f : f.severity = INFO)

\* C1: in every report the three counts of severity_summary are the numbers
\* of detailed findings of that severity, and they add up to the number of
\* detailed findings (no finding has another severity).
C1_SeverityPartition ==
  pc = "done" =>
    /\ result.severity_summary.critical = NCritical
    /\ result.severity_summary.warning = NWarning
    /\ result.severity_summary.info = NInfo
    /\ NCritical + NWarning + NInfo = Len(result.detailed_findings)

C1_Witness ==
  /\ pc = "done"
  /\ NCritical > 0 /\ NWarning > 0 /\ NInfo > 0
  /\ Len(cost_summary.cost_findings) > 0

\* C2: the maturity level is decided by the critical and warning counts
\* alone: production-leaning iff both are 0, basic iff critical > 0 or
\* warning > 3, developing iff critical = 0 and 1 <= warning <= 3.
C2_Maturity ==
  pc = "done" =>
    /\ result.maturity_level = "production-leaning" <=> (NCritical = 0 /\ NWarning = 0)
    /\ result.maturity_level = "basic" <=> (NCritical > 0 \/ NWarning > 3)
    /\ result.maturity_level = "developing" <=>
         (NCritical = 0 /\ 1 <= NWarning /\ NWarning <= 3)

C2_Witness ==
  /\ pc = "done"
  /\ NCritical = 0 /\ NWarning = 4 /\ NInfo > 0
  /\ result.maturity_level = "basic"

\* C3: two calls on the same file map return identical reports, the order of
\* every list of findings included.
C3_SameInputSameReport ==
  \A k \in 1..(Len(calls) - 1) :
     (calls[k + 1].flagged = <<>> /\ ~calls[k].raised /\ ~calls[k + 1].raised)
       => calls[k + 1].result = calls[k].result

\* C4: the analyzer never raises, whatever the shapes of the parsed trees.
C4_NeverRaises == pc # "raised"

\* is the i-th file of the map a configuration file that fails to parse?
ParseFails(i) == EndsWith(files[i].name, Lit.tf) /\ ~files[i].hcl.ok

\* the part of C5 about each file of the batch: one 'could not parse' info
\* finding per configuration file that fails to parse, which stays in
\* files_analyzed and out of the parsed set, while every other configuration
\* file is parsed
C5_PerFile ==
  \A i \in 1..Len(files) :
     /\ ParseFails(i) =>
          /\ Len(About(result.detailed_findings, "could_not_parse",
                       files[i].name, <<>>)) = 1
          /\ \A f \in Range(About(result.detailed_findings, "could_not_parse",
                                  files[i].name, <<>>)) : f.severity = INFO
          /\ \E j \in 1..Len(result.files_analyzed) :
                result.files_analyzed[j] = files[i].name
          /\ \A j \in 1..Len(parsed_files) : parsed_files[j].name # files[i].name
     /\ (EndsWith(files[i].name, Lit.tf) /\ files[i].hcl.ok
         /\ files[i].hcl.tree.items # <<>>) =>
          \E j \in 1..Len(parsed_files) :
             /\ parsed_files[j].name = files[i].name
             /\ parsed_files[j].parsed = files[i].hcl.tree

\* does the batch consist of configuration files that fail to parse?
OnlyUnparseable == files # <<>> /\ \A i \in 1..Len(files) : ParseFails(i)

\* C5 as claimed: ... and a batch of unparseable files only has no critical
\* and no warning finding.
C5_Original ==
  pc = "done" =>
    /\ C5_PerFile
    /\ OnlyUnparseable => (NCritical = 0 /\ NWarning = 0)

\* C5 (amended): every configuration file whose parse fails gets exactly one
\* 'could not parse' info finding naming it, stays in files_analyzed and is
\* left out of the parsed set, and every other file of the batch is still
\* parsed; a batch of unparseable files only has no critical finding, and
\* its warnings are exactly one 'referenced but never declared' warning per
\* name that occurs as var.<name> in the text of the files.
C5_ParseFailure ==
  pc = "done" =>
    /\ C5_PerFile
    /\ OnlyUnparseable =>
         /\ NCritical = 0
         /\ NWarning = Cardinality(used_var_names(files))
         /\ \A n \in used_var_names(files) :
               Len(About(result.detailed_findings, "never_declared", <<>>, n)) = 1

C5_Witness ==
  /\ pc = "done"
  /\ \E i \in 1..Len(files) : ParseFails(i)
  /\ parsed_files # <<>>
  /\ NCritical > 0

\* C6: a file map without configuration and values files yields a report
\* with no finding at all, rated production-leaning, with empty lists and
\* zero costs.
C6_NothingToAnalyze ==
  (pc = "done" /\ \A i \in 1..Len(files) :
                     ~EndsWith(files[i].name, Lit.tf) /\ ~EndsWith(files[i].name, Lit.tfvars))
    =>
    /\ result.severity_summary = [critical |-> 0, warning |-> 0, info |-> 0]
    /\ result.maturity_level = "production-leaning"
    /\ result.module_findings = <<>>
    /\ result.security_findings = <<>>
    /\ result.risks = <<>>
    /\ result.cost_summary.resource_costs = <<>>
    /\ \A tier \in DOMAIN result.cost_summary.tier_summary :
          result.cost_summary.tier_summary[tier] = 0
    /\ result.cost_summary.estimated_monthly_total_usd = <<"$", "0", "-", "$", "0">>
    /\ files = <<>> => result.files_analyzed = <<>>

\* is the source of a module block missing, or empty once a one-element list
\* is unwrapped?
SourceMissingOrEmpty(config) ==
  \/ ~HasKey(config, Key.source)
  \/ Get(config, Key.source, VNone) \in {VStr(<<>>), VList(<<>>), VList(<<VStr(<<>>)>>)}

\* the module block instances (file, name, body) of the parsed files whose
\* body is a mapping
ModuleInstances ==
  LET e == BlockConfigs(parsed_files, Key.module)
  IN {e[i] : i \in {i \in 1..Len(e) : IsDict(e[i].config)}}

\* C7: a module block without source (or with an empty one) gets exactly one
\* critical 'no source' finding in the report, whatever its other attributes,
\* and no untrusted-source, no-.tf-files, version-pinning or
\* version-constraint finding.
C7_NoSource ==
  pc = "done" =>
    \A c \in ModuleInstances :
       SourceMissingOrEmpty(c.config) =>
         /\ Len(About(result.detailed_findings, "no_source", c.filename, c.name)) = 1
         /\ \A f \in Range(About(result.detailed_findings, "no_source", c.filename, c.name)) :
               f.severity = CRITICAL
         /\ \A kind \in {"untrusted_source", "no_tf_files", "no_version_pinning",
                         "no_version_constraint"} :
               About(result.detailed_findings, kind, c.filename, c.name) = <<>>

C7_Witness ==
  /\ pc = "done"
  /\ \E c \in ModuleInstances :
        /\ SourceMissingOrEmpty(c.config)
        /\ HasKey(c.config, Key.version)
        /\ HasKey(c.config, Id.a)

\* the variables declared without default in directory dir by the parsed files
RequiredIn(dir) ==
  LET e == BlockConfigs(parsed_files, Key.variable)
  IN {e[i].name : i \in {i \in 1..Len(e) : /\ DirPrefix(e[i].filename) = dir
                                           /\ ~(IsDict(e[i].config)
                                                /\ HasKey(e[i].config, Key.default))}}

\* the directories in which the parsed files declare variables
VariableDirs ==
  LET e == BlockConfigs(parsed_files, Key.variable)
  IN {DirPrefix(e[i].filename) : i \in 1..Len(e)}

\* is the sequence of names in alphabetical order, without repetition?
Alphabetical(names) == \A i \in 1..(Len(names) - 1) : StrLess(names[i], names[i + 1])

\* the local module calls whose target directory has variable declarations,
\* each with its target directory
ValidatedCalls ==
  {c \in ModuleInstances :
     /\ IsStr(SourceOf(c.config))
     /\ \/ StartsWith(SourceOf(c.config).s, Lit.dot_slash)
        \/ StartsWith(SourceOf(c.config).s, Lit.dotdot_slash)
     /\ resolved_dir(c.filename, SourceOf(c.config).s) \in VariableDirs}

\* the names of the 'missing required variable' findings of a call, in order
MissingReported(c) ==
  LET fs == About(result.module_findings, "missing_required_variable", c.filename, c.name)
  IN [i \in 1..Len(fs) |-> fs[i].message.b]

OutputInstances ==
  LET e == BlockConfigs(parsed_files, Key.output)
  IN {e[i] : i \in {i \in 1..Len(e) : IsDict(e[i].config)}}

\* is r the identifier of a resource or module declared in a parsed file?
DeclaredSomewhere(r) ==
  \/ \E c \in Range(BlockConfigs(parsed_files, Key.resource)) :
        IsDict(c.config) /\ \E n \in Range(Keys(c.config)) : r = c.name \o <<".">> \o n
  \/ \E e \in Range(BlockEntries(parsed_files, Key.module)) :
        r = Key.module \o <<".">> \o e.name

\* the resource and module references of the value of an output
ResourceOrModuleRefs(c) ==
  {r \in Range(OutputRefs(c.config)) :
     StartsWith(r, <<"a", "w", "s", "_">>) \/ StartsWith(r, Key.module \o <<".">>)}

\* the findings about reference r of output c
RefFindings(c, r) ==
  SelectSeq(About(result.module_findings, "undeclared_ref", c.filename, c.name),
            LAMBDA f : f.message.b = r)

\* C9: every resource reference aws_<type>.<name> and every module reference
\* module.<name> in the value of an output yields one warning naming the
\* output and the reference when nothing with that identifier is declared in
\* a parsed file, and no finding when it is declared.
C9_OutputReferences ==
  pc = "done" =>
    \A c \in OutputInstances : \A r \in ResourceOrModuleRefs(c) :
       /\ DeclaredSomewhere(r) => RefFindings(c, r) = <<>>
       /\ ~DeclaredSomewhere(r) =>
            /\ Len(RefFindings(c, r)) = Count(OutputRefs(c.config), LAMBDA x : x = r)
            /\ \A f \in Range(RefFindings(c, r)) : f.severity = WARNING

C9_Witness ==
  /\ pc = "done"
  /\ \E c \in OutputInstances :
        /\ <<"a", "w", "s", "_", "i", ".", "w">> \in ResourceOrModuleRefs(c)
        /\ ~DeclaredSomewhere(<<"a", "w", "s", "_", "i", ".", "w">>)
        /\ Len(RefFindings(c, <<"a", "w", "s", "_", "i", ".", "w">>)) = 1
        /\ \E i \in 1..Len(result.risks) : result.risks[i].kind = "undeclared_ref"

\* is f the 'lacks sensitive = true' finding about variable v of file?
IsLacksSensitive(f, file, v) ==
  f.message.kind = "lacks_sensitive" /\ f.message.file = file /\ f.message.a = v

\* the pairs of consecutive calls where the second one has `sensitive = true`
\* added to a variable with a sensitive name that had no such attribute
FlaggedPairs ==
  {k \in 1..(Len(calls) - 1) :
     /\ calls[k + 1].flagged # <<>>
     /\ MatchesSensitivePattern(Lower(calls[k + 1].flagged[2]))
     /\ ~calls[k].raised /\ ~calls[k + 1].raised}

\* the variable blocks (file, name, body) of the parsed files that have a
\* sensitive name and no truthy `sensitive` attribute
UnflaggedSensitiveVariables ==
  LET e == BlockConfigs(parsed_files, Key.variable)
  IN {e[i] : i \in {i \in 1..Len(e) :
        /\ IsDict(e[i].config)
        /\ MatchesSensitivePattern(Lower(e[i].name))
        /\ Get(e[i].config, Key.sensitive, VFalse)
             \in {VFalse, VNone, VList(<<>>), VList(<<VFalse>>)}}}

\* C10: a variable with a sensitive name and no truthy `sensitive` attribute
\* gets a critical 'lacks sensitive = true' finding; with `sensitive = true`
\* added that finding is gone and the report holds the same other findings.
C10_SensitiveFlagFrame ==
  /\ pc = "done" =>
       \A c \in UnflaggedSensitiveVariables :
          Count(result.detailed_findings,
                LAMBDA f : IsLacksSensitive(f, c.filename, c.name)
                           /\ f.severity = CRITICAL) >= 1
  /\ \A k \in FlaggedPairs :
        LET file == calls[k + 1].flagged[1]
            v == calls[k + 1].flagged[2]
            found == calls[k].result.detailed_findings
            after == calls[k + 1].result.detailed_findings
        IN /\ Count(found, LAMBDA f : IsLacksSensitive(f, file, v)
                                      /\ f.severity = CRITICAL) >= 1
           /\ Count(after, LAMBDA f : IsLacksSensitive(f, file, v)) = 0
           /\ SameBag(SelectSeq(found, LAMBDA f : ~IsLacksSensitive(f, file, v)), after)

C10_Witness ==
  /\ FlaggedPairs # {}
  /\ \E k \in FlaggedPairs :
        /\ Len(calls[k + 1].result.detailed_findings) >= 2
        /\ \E i \in 1..Len(calls[k + 1].result.detailed_findings) :
              calls[k + 1].result.detailed_findings[i].message.kind = "hardcoded_default"

\* the variable blocks (file, name, body) of the parsed files
VariableInstances ==
  LET e == BlockConfigs(parsed_files, Key.variable)
  IN {e[i] : i \in {i \in 1..Len(e) : IsDict(e[i].config)}}

\* the value of an attribute once a one-element list is unwrapped
Scalar(config, key) ==
  LET x == Get(config, key, VNone)
  IN IF IsList(x) /\ Len(x.items) = 1 THEN x.items[1] ELSE x

\* is the sensitive flag of the variable absent or false?
FlagAbsentOrFalse(config) ==
  ~HasKey(config, Key.sensitive) \/ Scalar(config, Key.sensitive) = VFalse

\* has the variable a non-empty default?
NonEmptyDefault(config) ==
  Scalar(config, Key.default) \notin {VNone, VStr(<<>>), VList(<<>>)}

\* C11: a variable with a sensitive name gets the 'lacks sensitive = true'
\* finding iff its sensitive flag is absent or false and, independently, the
\* 'hardcoded default' finding iff it has a non-empty default (a one-element
\* list unwrapped); a variable whose name is not sensitive gets neither.
C11_IndependentFindings ==
  pc = "done" =>
    \A c \in VariableInstances :
       LET lacks == About(result.security_findings, "lacks_sensitive", c.filename, c.name)
           hard == About(result.security_findings, "hardcoded_default", c.filename, c.name)
       IN IF MatchesSensitivePattern(Lower(c.name))
          THEN /\ Len(lacks) = (IF FlagAbsentOrFalse(c.config) THEN 1 ELSE 0)
               /\ Len(hard) = (IF NonEmptyDefault(c.config) THEN 1 ELSE 0)
               /\ \A f \in Range(lacks \o hard) : f.severity = CRITICAL
          ELSE lacks = <<>> /\ hard = <<>>

\* the findings of the tfvars secret scanner about a file, per pattern family
SecretFindings(name) == About(result.security_findings, "tfvars_secret", name, <<>>)

KeyIdFindings(name) == About(result.security_findings, "tfvars_access_key", name, <<>>)

\* C12: the tfvars secret scanner reports only files whose name ends in
\* .tfvars, whatever the text of the other files; a .tfvars file with a
\* sensitive-keyed literal assignment or an AKIA-shaped access key ID gets a
\* critical finding, at most one per file and pattern family.
C12_ExtensionScoped ==
  pc = "done" =>
    /\ \A f \in Range(result.security_findings) :
          f.message.kind \in {"tfvars_secret", "tfvars_access_key"} =>
            /\ EndsWith(f.message.file, Lit.tfvars)
            /\ f.severity = CRITICAL
    /\ \A i \in 1..Len(files) :
          IF EndsWith(files[i].name, Lit.tfvars)
          THEN /\ Len(SecretFindings(files[i].name)) =
                    (IF HasSecretAssign(Content(files[i])) THEN 1 ELSE 0)
               /\ Len(KeyIdFindings(files[i].name)) =
                    (IF HasAccessKeyId(Content(files[i])) THEN 1 ELSE 0)
          ELSE SecretFindings(files[i].name) = <<>> /\ KeyIdFindings(files[i].name) = <<>>

C12_Witness ==
  /\ pc = "done"
  /\ \E i, j \in 1..Len(files) :
        /\ ~EndsWith(files[i].name, Lit.tfvars)
        /\ EndsWith(files[i].name, Lit.tf)
        /\ HasSecretAssign(Content(files[i]))
        /\ EndsWith(files[j].name, Lit.tfvars)
        /\ Len(SecretFindings(files[j].name)) = 1
        /\ Len(KeyIdFindings(files[j].name)) = 1

\* the declared resource instances (file, type, mapping of names) of the
\* parsed files whose type is in the cost table
TrackedResources ==
  SelectSeq(BlockConfigs(parsed_files, Key.resource),
            LAMBDA c : IsDict(c.config) /\ InCostMap(c.name))

\* the number of tracked resource instances that satisfy P
TrackedCount(P(_)) ==
  SumSeq([i \in 1..Len(TrackedResources) |->
            IF P(TrackedResources[i]) THEN Len(TrackedResources[i].config.items) ELSE 0])

\* C13: the cost summary has one entry per declared resource instance of a
\* type of the cost table, its total is '$L-$H' with L and H the sums of the
\* low and high bounds of the entries, and the tier counts add up to the
\* number of entries; other resources change nothing (one aws_nat_gateway
\* alone gives high >= 1 and '$32-$100').
C13_CostTotals ==
  pc = "done" =>
    LET cs == result.cost_summary
        L == SumSeq([i \in 1..Len(TrackedResources) |->
                       Len(TrackedResources[i].config.items)
                         * CostOf(TrackedResources[i].name).low])
        H == SumSeq([i \in 1..Len(TrackedResources) |->
                       Len(TrackedResources[i].config.items)
                         * CostOf(TrackedResources[i].name).high])
    IN /\ Len(cs.resource_costs) = TrackedCount(LAMBDA c : TRUE)
       /\ cs.estimated_monthly_total_usd
            = <<"$">> \o IntToStr(L) \o <<"-", "$">> \o IntToStr(H)
       /\ cs.tier_summary["low"] + cs.tier_summary["medium"] + cs.tier_summary["high"]
            + cs.tier_summary["very_high"] = Len(cs.resource_costs)
       /\ \A tier \in {"low", "medium", "high", "very_high"} :
             cs.tier_summary[tier] = TrackedCount(LAMBDA c : CostOf(c.name).tier = tier)
       /\ (/\ TrackedCount(LAMBDA c : TRUE) = 1
           /\ TrackedCount(LAMBDA c : c.name = Type.aws_nat_gateway) = 1)
          => /\ cs.tier_summary["high"] >= 1
             /\ cs.estimated_monthly_total_usd
                  = <<"$", "3", "2", "-", "$", "1", "0", "0">>

C13_Witness ==
  /\ pc = "done"
  /\ Len(result.cost_summary.resource_costs) = 2
  /\ result.cost_summary.estimated_monthly_total_usd
       = <<"$", "3", "6", "-", "$", "1", "0", "4">>
  /\ \E c \in Range(BlockConfigs(parsed_files, Key.resource)) : ~InCostMap(c.name)

\* the cost findings of the report
CostFindings ==
  SelectSeq(result.detailed_findings, LAMBDA f : f.message.kind = "costly_resource")

\* the cost findings of the report about resource type.name of file
CostFindingsAbout(file, type, name) ==
  SelectSeq(About(CostFindings, "costly_resource", file, type),
            LAMBDA f : f.message.b = name)

\* C14: every cost entry of tier high has exactly one warning and every entry
\* of tier very_high exactly one critical cost finding; entries of tier low
\* and medium and resources outside the cost table have none, so there are
\* tier_summary.high + tier_summary.very_high cost findings.
C14_CostFindings ==
  pc = "done" =>
    LET cs == result.cost_summary
    IN /\ Len(CostFindings) = cs.tier_summary["high"] + cs.tier_summary["very_high"]
       /\ CostFindings = cost_summary.cost_findings
       /\ \A c \in Range(BlockConfigs(parsed_files, Key.resource)) :
             IsDict(c.config) =>
               \A n \in Range(Keys(c.config)) :
                  LET fs == CostFindingsAbout(c.filename, c.name, n)
                      tier == IF InCostMap(c.name) THEN CostOf(c.name).tier ELSE "none"
                  IN /\ Len(fs) = (IF tier \in {"high", "very_high"} THEN 1 ELSE 0)
                     /\ \A f \in Range(fs) :
                           f.severity = (IF tier = "high" THEN WARNING ELSE CRITICAL)

C14_Witness ==
  /\ pc = "done"
  /\ result.cost_summary.tier_summary["very_high"] = 1
  /\ Len(CostFindings) = 1
  /\ CostFindings[1].severity = CRITICAL
  /\ \E c \in Range(BlockConfigs(parsed_files, Key.resource)) : ~InCostMap(c.name)

\* the messages of the findings of seq that have severity sev
Messages(seq, sev) ==
  LET fs == SelectSeq(seq, LAMBDA f : f.severity = sev)
  IN [i \in 1..Len(fs) |-> fs[i].message]

\* C15: risks holds the messages of the critical findings followed by those
\* of the warning findings, each group in the order module checks, security
\* checks, cost; it holds no info message, and `findings` holds exactly the
\* info messages.
C15_RisksAndFindings ==
  pc = "done" =>
    /\ Len(result.risks) = NCritical + NWarning
    /\ result.risks = Messages(result.detailed_findings, CRITICAL)
                        \o Messages(result.detailed_findings, WARNING)
    /\ \A sev \in {CRITICAL, WARNING} :
          Messages(result.detailed_findings, sev)
            = Messages(result.module_findings, sev)
                \o Messages(result.security_findings, sev)
                \o Messages(CostFindings, sev)
    /\ \A m \in Range(Messages(result.detailed_findings, INFO)) :
          \A i \in 1..Len(result.risks) : result.risks[i] # m
    /\ result.findings = Messages(result.detailed_findings, INFO)

C15_Witness ==
  /\ pc = "done"
  /\ NInfo > 0
  /\ \E i, j \in 1..Len(result.detailed_findings) :
        /\ i < j
        /\ result.detailed_findings[i].severity = WARNING
        /\ result.detailed_findings[j].severity = CRITICAL

\* the recommendations of the detailed findings of the report, in order
Recommendations ==
  [i \in 1..Len(result.detailed_findings) |-> result.detailed_findings[i].recommendation]

\* the position of the first occurrence of x in seq
FirstIndex(seq, x) == Min({i \in 1..Len(seq) : seq[i] = x})

\* a recommendation that is null
NullRecommendation == [kind |-> "null", a |-> <<>>, b |-> <<>>]

\* C16: recommended_improvements holds every recommendation of the detailed
\* findings exactly once, in the order of first occurrence, and no null.
C16_RecommendedImprovements ==
  pc = "done" =>
    LET ri == result.recommended_improvements
    IN /\ Range(ri) = Range(Recommendations)
       /\ \A i, j \in 1..Len(ri) : ri[i] = ri[j] => i = j
       /\ \A i, j \in 1..Len(ri) :
             i < j => FirstIndex(Recommendations, ri[i]) < FirstIndex(Recommendations, ri[j])
       /\ \A i \in 1..Len(ri) : ri[i] # NullRecommendation

C16_Witness ==
  /\ pc = "done"
  /\ Len(result.recommended_improvements) >= 2
  /\ \E i, j \in 1..Len(Recommendations) :
        /\ i < j
        /\ Recommendations[i] = Recommendations[j]
  /\ \E i \in 1..Len(Recommendations) : Recommendations[i] # Recommendations[1]

\* the parse-failure findings at the head of the detailed findings
ParseFailureFindings ==
  SubSeq(result.detailed_findings, 1,
         Len(result.detailed_findings) - Len(result.module_findings)
           - Len(result.security_findings) - Len(cost_summary.cost_findings))

\* C17: detailed_findings is the parse-failure info findings, then
\* module_findings, then security_findings, then the cost findings, and
\* files_analyzed lists every key of the input map, whatever its extension
\* and whether it parsed or not.
C17_DetailedFindings ==
  pc = "done" =>
    /\ result.detailed_findings
         = ParseFailureFindings \o result.module_findings
             \o result.security_findings \o cost_summary.cost_findings
    /\ Len(result.detailed_findings)
         = Count(result.detailed_findings, LAMBDA f : f.message.kind = "could_not_parse")
             + Len(result.module_findings) + Len(result.security_findings)
             + Len(cost_summary.cost_findings)
    /\ \A f \in Range(ParseFailureFindings) :
          f.message.kind = "could_not_parse" /\ f.severity = INFO
    /\ \A f \in Range(result.module_findings \o result.security_findings
                        \o cost_summary.cost_findings) :
          f.message.kind # "could_not_parse"
    /\ result.files_analyzed = [i \in 1..Len(files) |-> files[i].name]

C17_Witness ==
  /\ pc = "done"
  /\ ParseFailureFindings # <<>>
  /\ result.module_findings # <<>>
  /\ result.security_findings # <<>>
  /\ cost_summary.cost_findings # <<>>

\* the longest module source the shape enumeration builds, in fragments
MaxFragments == 3

\* the pieces the two version checks look for in a source, and a neutral one
Fragments ==
  {Lit.dot_slash, Lit.dotdot_slash, Lit.git_colons, Lit.github_com, Lit.ref, Id.a}

\* every module source made of at most MaxFragments pieces (the empty one
\* included)
SourceShapes ==
  {Flatten(fs) : fs \in UNION {[1..n -> Fragments] : n \in 0..MaxFragments}}

\* a module call with the given source, with and without a version
ShapedCalls ==
  {[filename |-> Name.main, name |-> Id.d,
    config |-> VMap(<<KV(Key.source, VStr(source))>> \o ver)] :
      source \in SourceShapes,
      ver \in {<<>>, <<KV(Key.version, VStr(Expr.one))>>, <<KV(Key.version, VStr(<<>>))>>}}

HasPinningWarning(findings) ==
  \E i \in 1..Len(findings) : findings[i].message.kind = "no_version_pinning"

HasConstraintWarning(findings) ==
  \E i \in 1..Len(findings) : findings[i].message.kind = "no_version_constraint"

\* some enumerated source shape gets both warnings for one block
SomeShapeGetsBoth ==
  \E c \in ShapedCalls :
     /\ HasPinningWarning(UntrustedSourceFindings(c))
     /\ HasConstraintWarning(UntrustedSourceFindings(c))

\* C18 as stated: there is a module source shape for which one block
\* receives both the 'no version pinning' and the 'no version constraint'
\* warning, in the check itself or in a finished report.
C18_BothFire ==
  pc = "done" =>
    \/ SomeShapeGetsBoth
    \/ \E c \in ModuleInstances :
          /\ About(result.detailed_findings, "no_version_pinning", c.filename, c.name) # <<>>
          /\ About(result.detailed_findings, "no_version_constraint", c.filename, c.name) # <<>>

\* C18: the 'no version pinning' and the 'no version constraint' warning are
\* never both given to one module block: neither for any enumerated source
\* shape, nor in any report.
C18_NeverBoth ==
  /\ ~SomeShapeGetsBoth
  /\ pc = "done" =>
       \A c \in ModuleInstances :
          ~(/\ About(result.detailed_findings, "no_version_pinning", c.filename, c.name) # <<>>
            /\ About(result.detailed_findings, "no_version_constraint", c.filename, c.name) # <<>>)

C18_Witness ==
  /\ pc = "done"
  /\ \E c \in ModuleInstances :
        /\ SourceOf(c.config) = VStr(Src.github)
        /\ About(result.detailed_findings, "no_version_pinning", c.filename, c.name) # <<>>
        /\ About(result.detailed_findings, "no_version_constraint", c.filename, c.name) = <<>>

\* the module blocks whose source is a str
StrSourced == {c \in ModuleInstances : IsStr(Scalar(c.config, Key.source))}

\* the characters of the source of a block of StrSourced
SourceText(c) == Scalar(c.config, Key.source).s

VcsStyle(c) ==
  Contains(SourceText(c), Lit.git_colons) \/ Contains(SourceText(c), Lit.github_com)

RelativeSource(c) ==
  StartsWith(SourceText(c), Lit.dot_slash) \/ StartsWith(SourceText(c), Lit.dotdot_slash)

\* has the block a version that is not the empty string?
NonEmptyVersion(c) ==
  HasKey(c.config, Key.version) /\ Scalar(c.config, Key.version) # VStr(<<>>)

PinningWarned(c) ==
  About(result.detailed_findings, "no_version_pinning", c.filename, c.name) # <<>>

ConstraintWarned(c) ==
  About(result.detailed_findings, "no_version_constraint", c.filename, c.name) # <<>>

\* what C19 says of the sources that are not relative, and of the
\* 'no version constraint' warning of the relative ones
VersionWarningsByShape(c) ==
  /\ VcsStyle(c) =>
       (PinningWarned(c) <=> (~Contains(SourceText(c), Lit.ref) /\ ~NonEmptyVersion(c)))
  /\ (SourceText(c) # <<>> /\ ~RelativeSource(c) /\ ~VcsStyle(c)) =>
       (ConstraintWarned(c) <=> ~NonEmptyVersion(c))
  /\ RelativeSource(c) => ~ConstraintWarned(c)

\* C19 as stated: a VCS-style source gets the 'no version pinning' warning
\* iff it has no '?ref=' and the block no non-empty version, a non-empty
\* source that is neither relative nor VCS-style gets the 'no version
\* constraint' warning iff the block has no non-empty version, and a
\* relative source gets neither warning.
C19_Original ==
  pc = "done" =>
    \A c \in StrSourced :
       /\ VersionWarningsByShape(c)
       /\ RelativeSource(c) => ~PinningWarned(c)

\* C19: as stated, except that a relative source that is also VCS-style
\* (it contains 'git::' or 'github.com') is treated by the 'no version
\* pinning' check like every other VCS-style source; only the relative
\* sources that are not VCS-style get neither warning.
C19_VersionWarnings ==
  pc = "done" =>
    \A c \in StrSourced :
       /\ VersionWarningsByShape(c)
       /\ (RelativeSource(c) /\ ~VcsStyle(c)) => ~PinningWarned(c)

C19_Witness ==
  /\ pc = "done"
  /\ \E c \in StrSourced :
        /\ RelativeSource(c)
        /\ VcsStyle(c)
        /\ PinningWarned(c)
        /\ ~ConstraintWarned(c)

\* the source without its trailing slashes and without its leading relative
\* prefix, './' or '../', and nothing else
DirOf(source) ==
  LET normalized == RStrip(source, {"/"})
  IN IF StartsWith(normalized, Lit.dotdot_slash) THEN SubSeq(normalized, 4, Len(normalized))
     ELSE IF StartsWith(normalized, Lit.dot_slash) THEN SubSeq(normalized, 3, Len(normalized))
     ELSE normalized

\* the paths of the .tf files of the batch
TfPaths == {files[i].name : i \in {i \in 1..Len(files) : EndsWith(files[i].name, Lit.tf)}}

\* some .tf file of the batch lies under the directory the source names
DirHasFiles(c) ==
  \E p \in TfPaths :
     \/ StartsWith(p, DirOf(SourceText(c)) \o Lit.slash)
     \/ StartsWith(p, RStrip(SourceText(c), {"/"}) \o Lit.slash)

\* C20: a module block with a relative source gets the 'no .tf files found
\* there' warning iff no file path of the batch begins with the source,
\* stripped of its relative prefix and trailing slash or not, followed by
\* '/'; the leading characters of the directory name itself are kept.
C20_NoTfFiles ==
  pc = "done" =>
    \A c \in StrSourced :
       RelativeSource(c) =>
         (About(result.detailed_findings, "no_tf_files", c.filename, c.name) # <<>>
            <=> ~DirHasFiles(c))

\* the names that occur as var.<name> in the text of the configuration files
TfVarRefs == used_var_names(tf_files(files))

\* the names of the variables declared in the parsed files
DeclaredVarNames == Range(declared_var_names(parsed_files))

\* the names the findings of kind `kind` of the report are about
NamesReported(kind) ==
  {f.message.a : f \in {g \in Range(result.detailed_findings) : g.message.kind = kind}}

\* C21: the variable-usage check gives an info finding for exactly the
\* declared variables that no configuration file references as var.<name>,
\* and a warning for exactly the names referenced in configuration-file text
\* and declared in no parsed file; the text of values files and of other
\* files does not count as a reference.
C21_VariableUsage ==
  pc = "done" =>
    /\ NamesReported("never_referenced") = DeclaredVarNames \ TfVarRefs
    /\ NamesReported("never_declared") = TfVarRefs \ DeclaredVarNames

\* the orders in which the files of the input map can be listed
FileOrders ==
  {[i \in 1..Len(files) |-> files[p[i]]] : p \in Orders(1..Len(files))}

\* the findings of kind `kind` of the report
OfKind(kind) == SelectSeq(result.module_findings, LAMBDA f : f.message.kind = kind)

DataRefAt(text, i) ==
  LET n1 == RunLen(text, i + 5, WordChars)
      n2 == RunLen(text, i + 6 + n1, WordChars)
  IN IF /\ MatchAt(text, i, Key.data \o <<".">>)
        /\ n1 >= 1
        /\ MatchAt(text, i + 5 + n1, <<".">>)
        /\ n2 >= 1
     THEN {SubSeq(text, i, i + 5 + n1 + n2)}
     ELSE {}

\* the data.<type>.<name> references of the value of an output
DataRefs(c) ==
  LET text == StrOf(Get(c.config, Key.value, VStr(<<>>)))
  IN UNION {DataRefAt(text, i) : i \in 1..Len(text)}

\* the dangling-reference findings of output c that name a data source
\* reference, whole or cut short, that r begins with
DataRefFindings(c, r) ==
  SelectSeq(About(result.module_findings, "undeclared_ref", c.filename, c.name),
            LAMBDA f : StartsWith(f.message.b, Key.data \o <<".">>)
                         /\ StartsWith(r, f.message.b))

\* C24: a data.<type>.<name> reference of an output value gets a warning iff
\* data.<type>.<name> is not among the declared data sources; a reference to
\* a data source declared in the batch gets no dangling-reference finding.
C24_DataReferences ==
  pc = "done" =>
    \A c \in OutputInstances : \A r \in DataRefs(c) :
       (DataRefFindings(c, r) # <<>>) <=> (r \notin declared_data_sources(parsed_files))

\* the directory of a local module call: the source without its relative
\* prefix, under the directory of the calling file
TargetDir(c) ==
  LET caller_dir == DirPrefix(c.filename)
  IN IF caller_dir # <<>> THEN caller_dir \o Lit.slash \o DirOf(SourceText(c))
     ELSE DirOf(SourceText(c))

\* the keys of a module call that pass a variable
PassedArgs(c) ==
  Range(Keys(c.config))
    \ {Key.source, Key.version, Key.providers, Key.depends_on, Key.count, Key.for_each}

\* C25: for a module call whose source starts with '../', the variables
\* declared without default in the directory named by the source ('../'
\* stripped, the directory of the calling file prefixed) and not passed at
\* the call are reported as critical 'missing required variable' findings.
C25_ParentSource ==
  pc = "done" =>
    \A c \in StrSourced :
       StartsWith(SourceText(c), Lit.dotdot_slash) =>
         \A n \in RequiredIn(TargetDir(c)) \ PassedArgs(c) :
            \E f \in Range(About(result.module_findings, "missing_required_variable",
                                 c.filename, c.name)) :
               f.message.b = n /\ f.severity = CRITICAL

\* C26: a local module call that the required-variable check validates (the
\* directory it resolves holds parsed variable declarations) gets no 'no .tf
\* files found there' warning from the source-validity check.
C26_SameDirectory ==
  pc = "done" =>
    \A c \in ValidatedCalls :
       About(result.module_findings, "no_tf_files", c.filename, c.name) = <<>>

\* C27: a configuration file gets a 'could not parse' finding only if its
\* parse failed; a file that parses to a tree without blocks gets none.
C27_OnlyOnFailure ==
  pc = "done" =>
    \A i \in 1..Len(files) :
       About(result.detailed_findings, "could_not_parse", files[i].name, <<>>) # <<>>
         => ParseFails(i)


(***************************************************************************)
(* The skill profile                                                       *)
(***************************************************************************)

\* the skills each feedback text of UpdateCalls names a keyword of
MatchedSkills ==
  [f \in {a.feedback : a \in UpdateCalls} |->
     {WEIGHTED_SKILL_MAP[i].skill :
        i \in {j \in 1..Len(WEIGHTED_SKILL_MAP) :
                 \E n \in 1..Len(WEIGHTED_SKILL_MAP[j].keywords_weights) :
                   Contains(Lower(f), WEIGHTED_SKILL_MAP[j].keywords_weights[n].keyword)}}]

\* the calls that have returned and matched skill k, in call order
MatchingCalls(k) == SelectSeq(log, LAMBDA e : k \in MatchedSkills[e.feedback])

FirstChars(s, n) == [i \in 1..(IF Len(s) < n THEN Len(s) ELSE n) |-> s[i]]

\* C23: after any sequence of update_skills calls every tracked skill has at
\* most MAX_HISTORY (5) history entries of at most 100 characters each and a
\* last_feedback of at most 200 characters; after k >= MAX_HISTORY calls
\* that match the skill its history is exactly the 100-character prefixes of
\* the MAX_HISTORY most recent matching feedbacks, in call order, and its
\* evidence_count is k.
C23_HistoryCapped ==
  /\ MAX_HISTORY = 5
  /\ db.row =>
       \A k \in DOMAIN db.skills :
         LET state == db.skills[k]
             m == MatchingCalls(k)
         IN /\ Len(state.history) <= MAX_HISTORY
            /\ \A i \in 1..Len(state.history) : Len(state.history[i]) <= 100
            /\ Len(state.last_feedback) <= 200
            /\ Len(m) >= MAX_HISTORY =>
                 /\ Len(state.history) = MAX_HISTORY
                 /\ \A i \in 1..MAX_HISTORY :
                      state.history[i] =
                        FirstChars(m[Len(m) - MAX_HISTORY + i].feedback, 100)
                 /\ state.evidence_count = Len(m)

\* a skill matched by more than MAX_HISTORY calls, the first of which has
\* left the history, with a feedback longer than 200 characters cut to 100
C23_Witness ==
  /\ db.row
  /\ \E k \in DOMAIN db.skills :
       LET state == db.skills[k]
           m == MatchingCalls(k)
       IN /\ Len(m) > MAX_HISTORY
          /\ m[1].feedback # m[2].feedback
          /\ \E i \in 1..Len(state.history) :
               /\ Len(state.history[i]) = 100
               /\ Len(m[Len(m) - MAX_HISTORY + i].feedback) > 200
          /\ \E i, j \in 1..Len(state.history) : state.history[i] # state.history[j]
          /\ state.evidence_count = Len(m)

\* the domains get_skill_adaptation may be given
Domains == {DOMAIN_TO_SKILL[i].domain : i \in 1..Len(DOMAIN_TO_SKILL)}

\* the domains none of whose skills the stored profile tracks
Untracked(d) ==
  \A i \in 1..Len(DOMAIN_TO_SKILL) :
    DOMAIN_TO_SKILL[i].domain = d => DOMAIN_TO_SKILL[i].skill \notin DOMAIN db.skills

\* C28: after any sequence of update_skills calls the stored user_level is
\* one of junior, mid, senior, so that get_skill_adaptation, given domains
\* without a tracked skill, derives its level from user_level and does not
\* fall back to "unknown".
C28_UserLevelVocabulary ==
  db.row =>
    /\ db.user_level \in {"junior", "mid", "senior"}
    /\ \A d \in Domains :
         Untracked(d) => effective_level(load_profile(db), {d}) # "unknown"

\* the share of a returned call in the weighted_score of skill k
Contribution(e, k) ==
  FeedbackScores[e.feedback][CHOOSE i \in 1..Len(WEIGHTED_SKILL_MAP) :
                               WEIGHTED_SKILL_MAP[i].skill = k]
    * maturity_multiplier(e.maturity)

SkillNames == {WEIGHTED_SKILL_MAP[i].skill : i \in 1..Len(WEIGHTED_SKILL_MAP)}

\* C29: no update is lost: when two update_skills calls of two processes
\* have both returned and both matched a skill, then whatever the order of
\* their load, modify and save steps, the stored evidence_count of the skill
\* has grown by 2 and its weighted_score by the sum of both contributions.
C29_NoLostUpdate ==
  (\A p \in Procs : tpc[p] = "idle") =>
    \A k \in SkillNames :
      LET m == MatchingCalls(k)
      IN (Len(m) = 2 /\ Len(log) = 2 /\ m[1].proc # m[2].proc) =>
           /\ k \in DOMAIN db.skills
           /\ db.skills[k].evidence_count = 2
           /\ db.skills[k].weighted_score = Contribution(m[1], k) + Contribution(m[2], k)

(***************************************************************************)
(* The review mode                                                         *)
(***************************************************************************)

TheModes == {"mentor", "review", "debug", "interview"}

\* the positions of the requests so far that name a mode
ValidRequests == {i \in 1..Len(requests) : requests[i] \in TheModes}

\* C30: the review mode is always one of mentor, review, debug, interview:
\* it is "mentor" until a valid mode is requested and from then on the mode
\* of the latest valid request; a request with any other string is answered
\* with the "Invalid mode" message and leaves the mode as it was; a valid
\* request is answered with the mode it set.
C30_ReviewMode ==
  /\ CURRENT_MODE \in TheModes
  /\ ValidRequests = {} => CURRENT_MODE = "mentor"
  /\ ValidRequests # {} =>
       CURRENT_MODE = requests[CHOOSE i \in ValidRequests : \A j \in ValidRequests : j <= i]
  /\ requests # <<>> =>
       IF requests[Len(requests)] \in TheModes
       THEN reply = <<"Review mode set to '", requests[Len(requests)], "'">>
       ELSE reply = <<"Invalid mode. Choose from: mentor, review, debug, interview">>

\* a mode other than the initial one was set and a later invalid request
\* was refused
C30_Witness ==
  /\ Len(requests) >= 2
  /\ requests[Len(requests) - 1] \in TheModes \ {"mentor"}
  /\ requests[Len(requests)] \notin TheModes
  /\ CURRENT_MODE = requests[Len(requests) - 1]
  /\ reply = <<"Invalid mode. Choose from: mentor, review, debug, interview">>

====
